---- MODULE Spec2Model ----
(***************************************************************************)
(* PIC24F pattern authentication system (src/main.c).                      *)
(*                                                                         *)
(* The specifications share the state:                                     *)
(*   Spec          the main application loop (menu, register, login,       *)
(*                 delete, list/unlock flows) as main() drives the store;  *)
(*   SpecStore     the store and validation functions called directly      *)
(*                 with arguments drawn from bounded sets;                 *)
(*   SpecValidate  ValidateLogin on one registered record, over timing     *)
(*                 vectors at the edges of the segment comparison;         *)
(*   SpecAccounts  the store functions and whole login attempts on an      *)
(*                 empty and on a nearly full table;                       *)
(*   SpecCapture   one call of CollectPattern, CollectDigits or            *)
(*                 WaitForButton, one loop iteration at a time under       *)
(*                 every raw reading of two channels;                      *)
(*   SpecSwipe     one CollectPattern call over all five channels, a rest  *)
(*                 on one channel at a time, then RegisterUser with the    *)
(*                 pattern it returned, and DeleteUser.                    *)
(*   SpecLoop      the main application loop on an empty and on a nearly   *)
(*                 full table;                                             *)
(*   SpecPause     one CollectPattern call with the finger lifted for a    *)
(*                 long time between two touches;                          *)
(*   SpecWait      one WaitForButton call (SpecWaitLive: a channel is      *)
(*                 held in the end);                                       *)
(*   SpecCalls     successive WaitForButton calls;                         *)
(*   SpecDebounce  the aggregate update and search on any aggregates;      *)
(*   SpecSessions  RegisterUser and DeleteUser calls of two callers,       *)
(*                 statement by statement, with and without a lock.        *)
(* Display, LED and delay calls have no effect on the modelled state.      *)
(***************************************************************************)
EXTENDS Integers, Sequences, FiniteSets, TLC

\* ------------------------------------------------------------------ constants
PATTERN_LENGTH == 5
ADMIN_PASSWORD == 1111
DB_SIZE == 10
LOCK_LIMIT == 3
TIMING_TOLERANCE_PERCENT == 40
MIN_SEGMENTS_REQUIRED == 2
timeout == 10
UINT8 == 256
UINT16 == 65536

\* ------------------------------------------------------------------ bounds
\* Number of distinct 2-digit ids entered in the main loop (11, 12, ...).
NumIds == 1
\* Number of distinct ids passed to the store functions called directly.
NumStoreIds == 2

\* ------------------------------------------------------------------ inputs
\* CollectDigits: result = result * 10 + digit, over the registered digits.
RECURSIVE DigitsValue(_, _, _)
DigitsValue(input, i, result) ==
    IF i > Len(input) THEN result
    ELSE DigitsValue(input, i + 1, result * 10 + input[i])

CollectDigits(input) == DigitsValue(input, 1, 0)

\* 2-digit ids the user enters at an ID prompt.
Ids == { CollectDigits(<<1, d>>) : d \in 1..NumIds }

\* Ids passed to the store functions in SpecStore.
StoreIds == { CollectDigits(<<1, d>>) : d \in 1..NumStoreIds }

\* 4-digit values entered at the admin password prompt.
PasswordInputs == { CollectDigits(<<1, 1, 1, 1>>), CollectDigits(<<1, 1, 1, 2>>) }

\* Patterns CollectPattern can return: PATTERN_LENGTH distinct buttons 1..5.
Patterns == { <<1, 3, 5, 2, 4>>, <<1, 3, 5, 4, 2>> }

\* Tick gaps between consecutive accepted buttons (loop iterations, >= 1).
BaseGaps == <<30, 50, 40, 20>>
WarnGaps == <<32, 48, 60, 20>>
FailGaps == <<60, 100, 80, 20>>
LongGaps == <<32768, 32768, 32768, 40>>

RegisterGaps == { BaseGaps, LongGaps }
LoginGaps == { BaseGaps, WarnGaps, FailGaps, LongGaps }

\* CollectPattern: timing[patternLen - 1] = (uint16_t)(timeDiff * timeout).
CaptureTiming(gaps) ==
    [i \in 1..(PATTERN_LENGTH - 1) |-> (gaps[i] * timeout) % UINT16]

Buttons == 0..4

\* ------------------------------------------------------------------ store
EmptyUser ==
    [userId |-> 0, pattern |-> [j \in 1..PATTERN_LENGTH |-> 0], isActive |-> 0,
     failedAttempts |-> 0, isLoggedIn |-> 0,
     timing |-> [j \in 1..(PATTERN_LENGTH - 1) |-> 0]]

InitDatabase == [db |-> [i \in 0..(DB_SIZE - 1) |-> EmptyUser], count |-> 0]

RECURSIVE FindUserFrom(_, _, _)
FindUserFrom(db, id, i) ==
    IF i >= DB_SIZE THEN -1
    ELSE IF db[i].isActive # 0 /\ db[i].userId = id THEN i
    ELSE FindUserFrom(db, id, i + 1)

FindUser(db, id) == FindUserFrom(db, id, 0)

RECURSIVE ComparePatternsFrom(_, _, _)
ComparePatternsFrom(pattern1, pattern2, i) ==
    IF i > PATTERN_LENGTH THEN 1
    ELSE IF pattern1[i] # pattern2[i] THEN 0
    ELSE ComparePatternsFrom(pattern1, pattern2, i + 1)

\* Mutant: returns from inside the loop after the first element.
ComparePatterns_FirstOnly(pattern1, pattern2) ==
    IF pattern1[1] # pattern2[1] THEN 0 ELSE 1

ComparePatterns(pattern1, pattern2) == ComparePatternsFrom(pattern1, pattern2, 1)

RECURSIVE FirstFreeFrom(_, _)
FirstFreeFrom(db, i) ==
    IF i >= DB_SIZE THEN -1
    ELSE IF db[i].isActive = 0 THEN i
    ELSE FirstFreeFrom(db, i + 1)

\* Mutant: the table counts as full one record early.
RegisterUser_FullOffByOne(db, count, id, pattern, timing) ==
    IF count >= DB_SIZE - 1 THEN [ret |-> 0, db |-> db, count |-> count]
    ELSE IF FindUser(db, id) # -1 THEN [ret |-> 0, db |-> db, count |-> count]
    ELSE LET i == FirstFreeFrom(db, 0) IN
         IF i = -1 THEN [ret |-> 0, db |-> db, count |-> count]
         ELSE [ret |-> 1,
               db |-> [db EXCEPT ![i] =
                          [userId |-> id, pattern |-> pattern, isActive |-> 1,
                           failedAttempts |-> 0, isLoggedIn |-> 0,
                           timing |-> timing]],
               count |-> (count + 1) % UINT8]

\* Mutant: no check that the id already exists.
RegisterUser_NoDuplicateCheck(db, count, id, pattern, timing) ==
    IF count >= DB_SIZE THEN [ret |-> 0, db |-> db, count |-> count]
    ELSE LET i == FirstFreeFrom(db, 0) IN
         IF i = -1 THEN [ret |-> 0, db |-> db, count |-> count]
         ELSE [ret |-> 1,
               db |-> [db EXCEPT ![i] =
                          [userId |-> id, pattern |-> pattern, isActive |-> 1,
                           failedAttempts |-> 0, isLoggedIn |-> 0,
                           timing |-> timing]],
               count |-> (count + 1) % UINT8]

RECURSIVE LastFreeFrom(_, _)
LastFreeFrom(db, i) ==
    IF i < 0 THEN -1
    ELSE IF db[i].isActive = 0 THEN i
    ELSE LastFreeFrom(db, i - 1)

\* Mutant: the slot search runs from the top of the table.
RegisterUser_LastFree(db, count, id, pattern, timing) ==
    IF count >= DB_SIZE THEN [ret |-> 0, db |-> db, count |-> count]
    ELSE IF FindUser(db, id) # -1 THEN [ret |-> 0, db |-> db, count |-> count]
    ELSE LET i == LastFreeFrom(db, DB_SIZE - 1) IN
         IF i = -1 THEN [ret |-> 0, db |-> db, count |-> count]
         ELSE [ret |-> 1,
               db |-> [db EXCEPT ![i] =
                          [userId |-> id, pattern |-> pattern, isActive |-> 1,
                           failedAttempts |-> 0, isLoggedIn |-> 0,
                           timing |-> timing]],
               count |-> (count + 1) % UINT8]

RegisterUser(db, count, id, pattern, timing) ==
    IF count >= DB_SIZE THEN [ret |-> 0, db |-> db, count |-> count]
    ELSE IF FindUser(db, id) # -1 THEN [ret |-> 0, db |-> db, count |-> count]
    ELSE LET i == FirstFreeFrom(db, 0) IN
         IF i = -1 THEN [ret |-> 0, db |-> db, count |-> count]
         ELSE [ret |-> 1,
               db |-> [db EXCEPT ![i] =
                          [userId |-> id, pattern |-> pattern, isActive |-> 1,
                           failedAttempts |-> 0, isLoggedIn |-> 0,
                           timing |-> timing]],
               count |-> (count + 1) % UINT8]

\* Mutant: the slot's fields are cleared but it stays active.
DeleteUser_LeavesActive(db, count, id) ==
    LET index == FindUser(db, id) IN
    IF index = -1 THEN [ret |-> 0, db |-> db, count |-> count]
    ELSE [ret |-> 1,
          db |-> [db EXCEPT ![index] = [EmptyUser EXCEPT !.isActive = 1]],
          count |-> (count + UINT8 - 1) % UINT8]

\* Mutant: userCount is not decremented.
DeleteUser_NoDecrement(db, count, id) ==
    LET index == FindUser(db, id) IN
    IF index = -1 THEN [ret |-> 0, db |-> db, count |-> count]
    ELSE [ret |-> 1,
          db |-> [db EXCEPT ![index] = EmptyUser],
          count |-> count]

\* Mutant: the pattern array of the slot is left as it was.
DeleteUser_KeepsPattern(db, count, id) ==
    LET index == FindUser(db, id) IN
    IF index = -1 THEN [ret |-> 0, db |-> db, count |-> count]
    ELSE [ret |-> 1,
          db |-> [db EXCEPT ![index] = [EmptyUser EXCEPT !.pattern = db[index].pattern]],
          count |-> (count + UINT8 - 1) % UINT8]

\* Mutant: the timing array of the slot is left as it was.
DeleteUser_KeepsTiming(db, count, id) ==
    LET index == FindUser(db, id) IN
    IF index = -1 THEN [ret |-> 0, db |-> db, count |-> count]
    ELSE [ret |-> 1,
          db |-> [db EXCEPT ![index] = [EmptyUser EXCEPT !.timing = db[index].timing]],
          count |-> (count + UINT8 - 1) % UINT8]

DeleteUser(db, count, id) ==
    LET index == FindUser(db, id) IN
    IF index = -1 THEN [ret |-> 0, db |-> db, count |-> count]
    ELSE [ret |-> 1,
          db |-> [db EXCEPT ![index] = EmptyUser],
          count |-> (count + UINT8 - 1) % UINT8]

\* Mutant: the unlock also ends the login session.
UnlockUser_ClearsLogin(db, id) ==
    LET index == FindUser(db, id) IN
    IF index = -1 THEN [ret |-> 0, db |-> db]
    ELSE [ret |-> 1,
          db |-> [db EXCEPT ![index].failedAttempts = 0, ![index].isLoggedIn = 0]]

UnlockUser(db, id) ==
    LET index == FindUser(db, id) IN
    IF index = -1 THEN [ret |-> 0, db |-> db]
    ELSE [ret |-> 1, db |-> [db EXCEPT ![index].failedAttempts = 0]]

NoSegments == [i \in 1..(PATTERN_LENGTH - 1) |-> 0]

\* Mutant: the difference is scaled in 16 bits, without the (uint32_t) cast.
SegmentMatch_NoCast(stored, input) ==
    IF stored = 0 \/ input = 0 THEN 0
    ELSE LET diff == IF stored > input THEN stored - input ELSE input - stored
             diffPercent == ((diff * 100) % UINT16) \div stored
         IN IF diffPercent <= TIMING_TOLERANCE_PERCENT THEN 1 ELSE 0

\* Mutant: the difference is taken one way only, a longer input counts as 0.
SegmentMatch_NoAbs(stored, input) ==
    IF stored = 0 \/ input = 0 THEN 0
    ELSE LET diff == IF stored > input THEN stored - input ELSE 0
             diffPercent == (diff * 100) \div stored
         IN IF diffPercent <= TIMING_TOLERANCE_PERCENT THEN 1 ELSE 0

\* One timing segment of ValidateLogin: 1 = match, 0 = mismatch.
SegmentMatch(stored, input) ==
    IF stored = 0 \/ input = 0 THEN 0
    ELSE LET diff == IF stored > input THEN stored - input ELSE input - stored
             diffPercent == (diff * 100) \div stored
         IN IF diffPercent <= TIMING_TOLERANCE_PERCENT THEN 1 ELSE 0

RECURSIVE SegmentsFrom(_, _, _, _)
SegmentsFrom(stored, input, i, segs) ==
    IF i > PATTERN_LENGTH - 1 THEN segs
    ELSE SegmentsFrom(stored, input, i + 1,
                      [segs EXCEPT ![i] = SegmentMatch(stored[i], input[i])])

RECURSIVE CountFrom(_, _)
CountFrom(segs, i) ==
    IF i > PATTERN_LENGTH - 1 THEN 0
    ELSE (IF segs[i] = 1 THEN 1 ELSE 0) + CountFrom(segs, i + 1)

\* Mutant: the timing segments are analysed before the pattern gate.
ValidateLogin_TimingFirst(db, id, pattern, timing) ==
    LET index == FindUser(db, id) IN
    IF index = -1 THEN [ret |-> 0, warning |-> 0, segs |-> NoSegments]
    ELSE LET segs == SegmentsFrom(db[index].timing, timing, 1, NoSegments)
             segmentsMatched == CountFrom(segs, 1)
         IN IF ComparePatterns(db[index].pattern, pattern) = 0
            THEN [ret |-> 0, warning |-> 0, segs |-> segs]
            ELSE IF segmentsMatched < MIN_SEGMENTS_REQUIRED
            THEN [ret |-> 0, warning |-> 0, segs |-> segs]
            ELSE [ret |-> 1,
                  warning |-> IF segmentsMatched < PATTERN_LENGTH - 1 THEN 1 ELSE 0,
                  segs |-> segs]

\* Mutant: the quorum test is <= instead of <.
ValidateLogin_QuorumOffByOne(db, id, pattern, timing) ==
    LET index == FindUser(db, id) IN
    IF index = -1 THEN [ret |-> 0, warning |-> 0, segs |-> NoSegments]
    ELSE IF ComparePatterns(db[index].pattern, pattern) = 0
         THEN [ret |-> 0, warning |-> 0, segs |-> NoSegments]
    ELSE LET segs == SegmentsFrom(db[index].timing, timing, 1, NoSegments)
             segmentsMatched == CountFrom(segs, 1)
         IN IF segmentsMatched <= MIN_SEGMENTS_REQUIRED
            THEN [ret |-> 0, warning |-> 0, segs |-> segs]
            ELSE [ret |-> 1,
                  warning |-> IF segmentsMatched < PATTERN_LENGTH - 1 THEN 1 ELSE 0,
                  segs |-> segs]

ValidateLogin(db, id, pattern, timing) ==
    LET index == FindUser(db, id) IN
    IF index = -1 THEN [ret |-> 0, warning |-> 0, segs |-> NoSegments]
    ELSE IF ComparePatterns(db[index].pattern, pattern) = 0
         THEN [ret |-> 0, warning |-> 0, segs |-> NoSegments]
    ELSE LET segs == SegmentsFrom(db[index].timing, timing, 1, NoSegments)
             segmentsMatched == CountFrom(segs, 1)
         IN IF segmentsMatched < MIN_SEGMENTS_REQUIRED
            THEN [ret |-> 0, warning |-> 0, segs |-> segs]
            ELSE [ret |-> 1,
                  warning |-> IF segmentsMatched < PATTERN_LENGTH - 1 THEN 1 ELSE 0,
                  segs |-> segs]

\* ------------------------------------------------------------------ capture
\* The three capture routines, one loop iteration (tick) at a time. Each keeps
\* its own aggr[5]; buttons is the raw reading ReadCTMU() leaves per channel.
NUM_TOUCHPADS == 5
THRESHOLD == 6
RELEASE_THRESHOLD == 2
AGGR_MAX == 30
NO_BUTTON == 255

Channels == 0..(NUM_TOUCHPADS - 1)

ZeroAggr == [i \in Channels |-> 0]

NoTouch == [i \in Channels |-> FALSE]

OnlyChannel(c) == [i \in Channels |-> i = c]

\* The highest aggregate among the channels other than c.
HighestOther(aggr, c) ==
    CHOOSE v \in 0..AGGR_MAX :
        /\ \E j \in Channels \ {c} : aggr[j] = v
        /\ \A j \in Channels \ {c} : aggr[j] <= v

\* Ticks a channel read alone takes from aggregate 0 to above THRESHOLD.
DebounceTicks == THRESHOLD + 1

\* Mutant: the aggregate is never decremented.
UpdateAggr_NoDecay(aggr, buttons) ==
    [i \in Channels |->
        LET v == IF buttons[i] THEN aggr[i] + 1 ELSE aggr[i]
        IN IF v < 0 THEN 0 ELSE IF v > AGGR_MAX THEN AGGR_MAX ELSE v]

\* Mutant: the upper clamp is missing.
UpdateAggr_NoUpperClamp(aggr, buttons) ==
    [i \in Channels |->
        LET v == IF buttons[i] THEN aggr[i] + 1 ELSE aggr[i] - 1
        IN IF v < 0 THEN 0 ELSE v]

\* if (buttons[i]) aggr[i]++; else aggr[i]--; clamp to 0..30.
UpdateAggr(aggr, buttons) ==
    [i \in Channels |->
        LET v == IF buttons[i] THEN aggr[i] + 1 ELSE aggr[i] - 1
        IN IF v < 0 THEN 0 ELSE IF v > AGGR_MAX THEN AGGR_MAX ELSE v]

RECURSIVE MaxButtonFrom(_, _, _, _)
MaxButtonFrom(aggr, i, maxVal, maxButton) ==
    IF i >= NUM_TOUCHPADS THEN maxButton
    ELSE IF aggr[i] > maxVal
         THEN MaxButtonFrom(aggr, i + 1, aggr[i], i)
         ELSE MaxButtonFrom(aggr, i + 1, maxVal, maxButton)

\* Mutant: the running maximum starts at 0 instead of THRESHOLD.
MaxButton_FromZero(aggr) == MaxButtonFrom(aggr, 0, 0, NO_BUTTON)

RECURSIVE LastMaxFrom(_, _, _, _)
LastMaxFrom(aggr, i, maxVal, maxButton) ==
    IF i >= NUM_TOUCHPADS THEN maxButton
    ELSE IF aggr[i] > maxVal \/ (maxButton # NO_BUTTON /\ aggr[i] = maxVal)
         THEN LastMaxFrom(aggr, i + 1, aggr[i], i)
         ELSE LastMaxFrom(aggr, i + 1, maxVal, maxButton)

\* Mutant: a later channel with an equal aggregate replaces the maximum.
MaxButton_LastWins(aggr) == LastMaxFrom(aggr, 0, THRESHOLD, NO_BUTTON)

\* maxVal = THRESHOLD; the first channel with aggr[i] > maxVal in array order.
MaxButton(aggr) == MaxButtonFrom(aggr, 0, THRESHOLD, NO_BUTTON)

RECURSIVE IsInPatternFrom(_, _, _, _)
IsInPatternFrom(pattern, length, button, i) ==
    IF i > length THEN 0
    ELSE IF pattern[i] = button THEN 1
    ELSE IsInPatternFrom(pattern, length, button, i + 1)

\* Mutant: only the first element of the pattern is compared.
IsInPattern_FirstOnly(pattern, length, button) ==
    IF length >= 1 /\ pattern[1] = button THEN 1 ELSE 0

IsInPattern(pattern, length, button) == IsInPatternFrom(pattern, length, button, 1)

\* CollectPattern's locals at entry; pattern[] is the caller's array, of which
\* only the first patternLen elements are ever read (0 stands for unwritten).
InitPatternFrame ==
    [patternLen |-> 0, aggr |-> ZeroAggr, lastButton |-> NO_BUTTON,
     lastButtonTime |-> 0, currentTime |-> 0,
     pattern |-> [j \in 1..PATTERN_LENGTH |-> 0], timing |-> NoSegments]

\* Mutant: only the last accepted channel is refused.
PatternStep_NoPrefixCheck(f, buttons) ==
    LET aggr == UpdateAggr(f.aggr, buttons)
        currentButton == MaxButton(aggr)
        buttonNum == currentButton + 1
        accept == /\ currentButton # NO_BUTTON
                  /\ currentButton # f.lastButton
        timeDiff == f.currentTime - f.lastButtonTime
    IN IF accept
       THEN [patternLen |-> f.patternLen + 1,
             aggr |-> aggr,
             lastButton |-> currentButton,
             lastButtonTime |-> f.currentTime,
             currentTime |-> f.currentTime + 1,
             pattern |-> [f.pattern EXCEPT ![f.patternLen + 1] = buttonNum],
             timing |-> IF f.patternLen > 0
                        THEN [f.timing EXCEPT ![f.patternLen] =
                                 (timeDiff * timeout) % UINT16]
                        ELSE f.timing]
       ELSE [f EXCEPT !.aggr = aggr, !.currentTime = f.currentTime + 1]

\* One iteration of CollectPattern's while loop. currentTime and
\* lastButtonTime are uint32_t counters; the tick counts explored stay far
\* below 2^32, so only the (uint16_t) cast of the product can wrap.
PatternStep(f, buttons) ==
    LET aggr == UpdateAggr(f.aggr, buttons)
        currentButton == MaxButton(aggr)
        buttonNum == currentButton + 1
        accept == /\ currentButton # NO_BUTTON
                  /\ currentButton # f.lastButton
                  /\ IsInPattern(f.pattern, f.patternLen, buttonNum) = 0
        timeDiff == f.currentTime - f.lastButtonTime
    IN IF accept
       THEN [patternLen |-> f.patternLen + 1,
             aggr |-> aggr,
             lastButton |-> currentButton,
             lastButtonTime |-> f.currentTime,
             currentTime |-> f.currentTime + 1,
             pattern |-> [f.pattern EXCEPT ![f.patternLen + 1] = buttonNum],
             timing |-> IF f.patternLen > 0
                        THEN [f.timing EXCEPT ![f.patternLen] =
                                 (timeDiff * timeout) % UINT16]
                        ELSE f.timing]
       ELSE [f EXCEPT !.aggr = aggr, !.currentTime = f.currentTime + 1]

\* n iterations with the same raw reading, or fewer if the loop exits.
RECURSIVE PatternSteps(_, _, _)
PatternSteps(f, buttons, n) ==
    IF n = 0 \/ f.patternLen >= PATTERN_LENGTH THEN f
    ELSE CHOOSE r \in { PatternSteps(next, buttons, n - 1) :
                        next \in {PatternStep(f, buttons)} } : TRUE

\* CollectDigits' locals at entry; input holds the digits registered so far.
InitDigitsFrame ==
    [digitCount |-> 0, aggr |-> ZeroAggr, digitRegistered |-> 0, input |-> <<>>]

\* Mutant: release is detected at THRESHOLD instead of RELEASE_THRESHOLD.
AllReleased_AtThreshold(aggr) ==
    IF \E i \in Channels : aggr[i] > THRESHOLD THEN 0 ELSE 1

\* allReleased: no aggregate above RELEASE_THRESHOLD.
AllReleased(aggr) ==
    IF \E i \in Channels : aggr[i] > RELEASE_THRESHOLD THEN 0 ELSE 1

\* Mutant: the channel index is used as the digit.
DigitOf_ZeroBased(maxButton) == maxButton

\* digit = maxButton + 1.
DigitOf(maxButton) == maxButton + 1

\* One iteration of CollectDigits' while loop.
DigitsStep(f, buttons) ==
    LET aggr == UpdateAggr(f.aggr, buttons)
        digitRegistered == IF AllReleased(aggr) = 1 /\ f.digitRegistered = 1
                           THEN 0 ELSE f.digitRegistered
        maxButton == MaxButton(aggr)
    IN IF digitRegistered = 0 /\ maxButton # NO_BUTTON
       THEN [digitCount |-> f.digitCount + 1, aggr |-> aggr,
             digitRegistered |-> 1,
             input |-> Append(f.input, DigitOf(maxButton))]
       ELSE [f EXCEPT !.aggr = aggr, !.digitRegistered = digitRegistered]

\* WaitForButton's locals at entry.
InitButtonFrame == [aggr |-> ZeroAggr, lastDetected |-> NO_BUTTON, ret |-> NO_BUTTON]

\* Mutant: the highest aggregate is returned whether above THRESHOLD or not.
ButtonStep_NoThreshold(f, buttons) ==
    LET aggr == UpdateAggr(f.aggr, buttons)
        maxButton == MaxButton_FromZero(aggr)
    IN IF maxButton # NO_BUTTON /\ maxButton # f.lastDetected
       THEN [aggr |-> aggr, lastDetected |-> f.lastDetected, ret |-> maxButton]
       ELSE [aggr |-> aggr,
             lastDetected |-> IF maxButton = NO_BUTTON THEN NO_BUTTON
                              ELSE f.lastDetected,
             ret |-> NO_BUTTON]

\* Mutant: a channel is returned on the second tick in a row it is detected.
ButtonStep_Confirmed(f, buttons) ==
    LET aggr == UpdateAggr(f.aggr, buttons)
        maxButton == MaxButton(aggr)
    IN IF maxButton # NO_BUTTON /\ maxButton = f.lastDetected
       THEN [aggr |-> aggr, lastDetected |-> f.lastDetected, ret |-> maxButton]
       ELSE [aggr |-> aggr, lastDetected |-> maxButton, ret |-> NO_BUTTON]

\* One iteration of WaitForButton's while(1); ret # NO_BUTTON is the return.
ButtonStep(f, buttons) ==
    LET aggr == UpdateAggr(f.aggr, buttons)
        maxButton == MaxButton(aggr)
    IN IF maxButton # NO_BUTTON /\ maxButton # f.lastDetected
       THEN [aggr |-> aggr, lastDetected |-> f.lastDetected, ret |-> maxButton]
       ELSE [aggr |-> aggr,
             lastDetected |-> IF maxButton = NO_BUTTON THEN NO_BUTTON
                              ELSE f.lastDetected,
             ret |-> NO_BUTTON]

\* n iterations of it under one reading, stopping at the return.
RECURSIVE ButtonSteps(_, _, _)
ButtonSteps(f, buttons, n) ==
    IF n = 0 \/ f.ret # NO_BUTTON THEN f
    ELSE CHOOSE r \in { ButtonSteps(next, buttons, n - 1) :
                        next \in {ButtonStep(f, buttons)} } : TRUE

\* The locals before the last of at most n iterations under one reading: the
\* n-th, or the one that returns if that comes first.
RECURSIVE ButtonLastStep(_, _, _)
ButtonLastStep(f, buttons, n) ==
    CHOOSE r \in { IF n <= 1 \/ next.ret # NO_BUTTON THEN f
                   ELSE ButtonLastStep(next, buttons, n - 1) :
                   next \in {ButtonStep(f, buttons)} } : TRUE

\* ------------------------------------------------------------------ state
VARIABLES
    userDatabase,       \* User userDatabase[10]
    userCount,          \* uint8_t userCount
    pc,                 \* where main() is blocked waiting for input
    screenIndex,        \* main menu: 0 = REGISTER|LOGIN, 1 = DELETE|LIST
    selectedIndex,      \* main menu: 0 = left option, 1 = right option
    userId,             \* id entered in the current flow
    userIndex,          \* FindUser(userId) taken at the start of the flow
    listScreenIndex,    \* LIST submenu screen
    listSelectedIndex,  \* LIST submenu selection
    lockedUserIds,      \* lockedUserIds[0..lockedCount-1] of the locked list
    navSelected,        \* selectedIndex of DisplayLockedUsersWithNavigation
    userIdToUnlock,     \* id awaiting the unlock confirmation
    ev,                 \* the store call made by the last step, with its result
                        \* ("admin": the password check), and the
                        \* confirmation button the step read
    hist,               \* per id: what has happened to the account so far
    patternFrame,       \* locals of the running CollectPattern call
    digitsFrame,        \* locals of the running CollectDigits call
    buttonFrame,        \* locals of the running WaitForButton call
    call,               \* the capture routine being run, and its return
    obs,                \* what the last tick of that routine read and found
    sessions            \* callers stepping the store functions statement by statement

vars == <<userDatabase, userCount, pc, screenIndex, selectedIndex, userId,
          userIndex, listScreenIndex, listSelectedIndex, lockedUserIds,
          navSelected, userIdToUnlock, ev, hist, patternFrame, digitsFrame,
          buttonFrame, call, obs, sessions>>

captureVars == <<patternFrame, digitsFrame, buttonFrame, call, obs>>

\* No capture routine is being stepped: the flows take its result as input.
NoCall ==
    [fn |-> "none", state |-> "idle", numDigits |-> 0, result |-> 0, steps |-> 0]

\* buttons: the raw reading of the tick; scanned, reported: whether the tick
\* searched for the highest aggregate, and the channel found (NO_BUTTON: none);
\* prevReported: the same of the tick before; runChan, runLen: the channel
\* that alone read touched over the iterations of the last step, when it was a
\* hold, and how many they were; runOthers: the highest aggregate of the other
\* channels when the hold began;
\* chans: channels registered as digits; released: some tick since the last
\* registration had every aggregate at or below RELEASE_THRESHOLD; held: the
\* channel registered last has read touched on every tick since.
\* Over successive WaitForButton calls: chans: the channels the calls returned;
\* held: every tick since the first call began read runChan alone touched.
NoObs ==
    [buttons |-> NoTouch, scanned |-> FALSE, reported |-> NO_BUTTON,
     prevReported |-> NO_BUTTON, runChan |-> NO_BUTTON, runLen |-> 0,
     runOthers |-> 0, chans |-> <<>>, released |-> FALSE, held |-> FALSE]

\* The callers of a store that is shared between sessions.
Procs == {1, 2}

IdleProc == [pc |-> "idle", id |-> 0, i |-> -1, ops |-> 0]

\* locking: the callers take an exclusive lock for a whole call; lock: the
\* caller holding it (0: free); proc: where each caller is in its call, the
\* id it was called with, its local index and the calls it has completed.
NoSessions ==
    [locking |-> TRUE, lock |-> 0, proc |-> [p \in Procs |-> IdleProc]]

SessionsUnchanged == UNCHANGED sessions

CaptureIdle ==
    /\ patternFrame = InitPatternFrame
    /\ digitsFrame = InitDigitsFrame
    /\ buttonFrame = InitButtonFrame
    /\ call = NoCall
    /\ obs = NoObs

CaptureUnchanged == UNCHANGED captureVars

NoEvent ==
    [op |-> "none", flow |-> "none", id |-> 0, index |-> -1,
     pattern |-> [j \in 1..PATTERN_LENGTH |-> 0], timing |-> NoSegments,
     ret |-> 0, warning |-> 0, segs |-> NoSegments, priorFails |-> 0,
     priorCount |-> 0, button |-> -1]

\* consec: failed validations of the id in a row since the last successful
\*         validation, unlock or registration (counted up to LOCK_LIMIT);
\* sinceUnlock: UnlockUser was the last store call that touched the id;
\* lastFails: failedAttempts the id's record held when it last existed.
NoHistory == [consec |-> 0, sinceUnlock |-> FALSE, lastFails |-> 0]

Init ==
    /\ userDatabase = InitDatabase.db
    /\ userCount = InitDatabase.count
    /\ pc = "menu"
    /\ screenIndex = 0
    /\ selectedIndex = 0
    /\ userId = 0
    /\ userIndex = -1
    /\ listScreenIndex = 0
    /\ listSelectedIndex = 0
    /\ lockedUserIds = <<>>
    /\ navSelected = 0
    /\ userIdToUnlock = 0
    /\ ev = NoEvent
    /\ hist = [id \in Ids |-> NoHistory]
    /\ CaptureIdle
    /\ sessions = NoSessions

\* ------------------------------------------------------------------ main loop
\* `continue` / end of a flow: back to the top of while(1), menu redrawn.
ToMenu ==
    /\ pc' = "menu"
    /\ screenIndex' = 0
    /\ selectedIndex' = 0
    /\ userId' = 0
    /\ userIndex' = -1
    /\ listScreenIndex' = 0
    /\ listSelectedIndex' = 0
    /\ lockedUserIds' = <<>>
    /\ navSelected' = 0
    /\ userIdToUnlock' = 0

\* Leave the main menu for the prompt `next` of a flow.
ToPrompt(next) ==
    /\ pc' = next
    /\ screenIndex' = 0
    /\ selectedIndex' = 0
    /\ UNCHANGED <<userId, userIndex, listScreenIndex, listSelectedIndex,
                   lockedUserIds, navSelected, userIdToUnlock>>

StoreUnchanged == UNCHANGED <<userDatabase, userCount>>

\* Main menu: one WaitForButton result.
MenuButton(btn) ==
    /\ pc = "menu"
    /\ CaptureUnchanged
    /\ SessionsUnchanged
    /\ ev' = NoEvent
    /\ UNCHANGED hist
    /\ StoreUnchanged
    /\ IF btn # 4
       THEN /\ screenIndex' = (IF btn = 0 THEN 0 ELSE IF btn = 2 THEN 1 ELSE screenIndex)
            /\ selectedIndex' = (IF btn = 1 THEN 1 ELSE 0)
            /\ UNCHANGED <<pc, userId, userIndex, listScreenIndex, listSelectedIndex,
                           lockedUserIds, navSelected, userIdToUnlock>>
       ELSE LET finalSelection ==
                    IF screenIndex = 0 THEN selectedIndex ELSE selectedIndex + 2
            IN CASE finalSelection = 0 ->
                        IF userCount >= DB_SIZE THEN ToMenu ELSE ToPrompt("reg_id")
                 [] finalSelection = 1 -> ToPrompt("login_id")
                 [] finalSelection = 2 ->
                        IF userCount = 0 THEN ToMenu ELSE ToPrompt("del_id")
                 [] OTHER -> ToPrompt("list_pass")

\* REGISTER: CollectDigits(2, "ID") then the duplicate check.
RegisterEnterId(id) ==
    /\ pc = "reg_id"
    /\ CaptureUnchanged
    /\ SessionsUnchanged
    /\ ev' = NoEvent
    /\ UNCHANGED hist
    /\ StoreUnchanged
    /\ IF FindUser(userDatabase, id) # -1
       THEN ToMenu
       ELSE /\ pc' = "reg_pattern"
            /\ userId' = id
            /\ UNCHANGED <<screenIndex, selectedIndex, userIndex, listScreenIndex,
                           listSelectedIndex, lockedUserIds, navSelected,
                           userIdToUnlock>>

\* REGISTER: CollectPattern then RegisterUser.
RegisterPattern(pattern, gaps) ==
    /\ pc = "reg_pattern"
    /\ CaptureUnchanged
    /\ SessionsUnchanged
    /\ LET timing == CaptureTiming(gaps)
           r == RegisterUser(userDatabase, userCount, userId, pattern, timing)
       IN /\ userDatabase' = r.db
          /\ userCount' = r.count
          /\ ev' = [NoEvent EXCEPT !.op = "register", !.flow = "register",
                                   !.id = userId,
                                   !.index = FindUser(r.db, userId),
                                   !.pattern = pattern, !.timing = timing,
                                   !.ret = r.ret, !.priorCount = userCount]
          /\ hist' = IF r.ret # 0
                     THEN [hist EXCEPT ![userId] = NoHistory]
                     ELSE hist
    /\ ToMenu

\* Mutant: the lock check is off by one.
IsLocked_OffByOne(db, index) == db[index].failedAttempts > LOCK_LIMIT

\* The lock check of the login flow.
IsLocked(db, index) == db[index].failedAttempts >= LOCK_LIMIT

\* LOGIN: CollectDigits(2, "ID"), the existence check and the lock check.
LoginEnterId(id) ==
    /\ pc = "login_id"
    /\ CaptureUnchanged
    /\ SessionsUnchanged
    /\ ev' = NoEvent
    /\ UNCHANGED hist
    /\ StoreUnchanged
    /\ LET index == FindUser(userDatabase, id) IN
       IF index = -1 THEN ToMenu
       ELSE IF IsLocked(userDatabase, index) THEN ToMenu
       ELSE /\ pc' = "login_pattern"
            /\ userId' = id
            /\ userIndex' = index
            /\ UNCHANGED <<screenIndex, selectedIndex, listScreenIndex,
                           listSelectedIndex, lockedUserIds, navSelected,
                           userIdToUnlock>>

LoginSuccess(db, index) ==
    [db EXCEPT ![index].failedAttempts = 0, ![index].isLoggedIn = 1]

\* Mutant: the counter wraps at the lock limit.
LoginFailure_Wraps(db, index) ==
    [db EXCEPT ![index].failedAttempts = (@ + 1) % LOCK_LIMIT]

LoginFailure(db, index) ==
    [db EXCEPT ![index].failedAttempts = (@ + 1) % UINT8]

ValidateEvent(flow, id, index, pattern, timing, v, prior) ==
    [op |-> "validate", flow |-> flow, id |-> id, index |-> index,
     pattern |-> pattern, timing |-> timing, ret |-> v.ret,
     warning |-> v.warning, segs |-> v.segs, priorFails |-> prior,
     priorCount |-> userCount, button |-> -1]

Min(a, b) == IF a < b THEN a ELSE b

AfterValidate(id, ret, fails) ==
    [hist EXCEPT ![id] =
        [consec |-> IF ret # 0 THEN 0 ELSE Min(@.consec + 1, LOCK_LIMIT),
         sinceUnlock |-> FALSE,
         lastFails |-> fails]]

\* LOGIN: CollectPattern, ValidateLogin and the success / failure branch.
LoginPattern(pattern, gaps) ==
    /\ pc = "login_pattern"
    /\ CaptureUnchanged
    /\ SessionsUnchanged
    /\ LET timing == CaptureTiming(gaps)
           v == ValidateLogin(userDatabase, userId, pattern, timing)
           db == IF v.ret # 0
                 THEN LoginSuccess(userDatabase, userIndex)
                 ELSE LoginFailure(userDatabase, userIndex)
       IN /\ userDatabase' = db
          /\ ev' = ValidateEvent("login", userId, userIndex, pattern, timing, v,
                                 userDatabase[userIndex].failedAttempts)
          /\ hist' = AfterValidate(userId, v.ret, db[userIndex].failedAttempts)
    /\ UNCHANGED userCount
    /\ ToMenu

\* DELETE: CollectDigits(2, "ID") and the existence check.
DeleteEnterId(id) ==
    /\ pc = "del_id"
    /\ CaptureUnchanged
    /\ SessionsUnchanged
    /\ ev' = NoEvent
    /\ UNCHANGED hist
    /\ StoreUnchanged
    /\ LET index == FindUser(userDatabase, id) IN
       IF index = -1 THEN ToMenu
       ELSE /\ pc' = "del_pattern"
            /\ userId' = id
            /\ userIndex' = index
            /\ UNCHANGED <<screenIndex, selectedIndex, listScreenIndex,
                           listSelectedIndex, lockedUserIds, navSelected,
                           userIdToUnlock>>

\* Mutant: a failed authentication asks for the pattern again.
DeletePattern_Retries(pattern, gaps) ==
    /\ pc = "del_pattern"
    /\ CaptureUnchanged
    /\ SessionsUnchanged
    /\ LET timing == CaptureTiming(gaps)
           v == ValidateLogin(userDatabase, userId, pattern, timing)
       IN /\ ev' = ValidateEvent("delete", userId, userIndex, pattern, timing, v,
                                 userDatabase[userIndex].failedAttempts)
          /\ hist' = AfterValidate(userId, v.ret,
                                   userDatabase[userIndex].failedAttempts)
          /\ pc' = IF v.ret # 0 THEN "del_confirm" ELSE "del_pattern"
          /\ UNCHANGED <<screenIndex, selectedIndex, userId, userIndex,
                         listScreenIndex, listSelectedIndex, lockedUserIds,
                         navSelected, userIdToUnlock>>
    /\ StoreUnchanged

\* DELETE: CollectPattern and ValidateLogin ("AUTHENTICATE TO DELETE").
DeletePattern(pattern, gaps) ==
    /\ pc = "del_pattern"
    /\ CaptureUnchanged
    /\ SessionsUnchanged
    /\ LET timing == CaptureTiming(gaps)
           v == ValidateLogin(userDatabase, userId, pattern, timing)
       IN /\ ev' = ValidateEvent("delete", userId, userIndex, pattern, timing, v,
                                 userDatabase[userIndex].failedAttempts)
          /\ hist' = AfterValidate(userId, v.ret,
                                   userDatabase[userIndex].failedAttempts)
          /\ IF v.ret # 0
             THEN /\ pc' = "del_confirm"
                  /\ UNCHANGED <<screenIndex, selectedIndex, userId, userIndex,
                                 listScreenIndex, listSelectedIndex, lockedUserIds,
                                 navSelected, userIdToUnlock>>
             ELSE ToMenu
    /\ StoreUnchanged

\* DeleteConfirm calling DeleteUser on every button but UP.
DeleteConfirm_AnyButton(btn) ==
    /\ pc = "del_confirm"
    /\ CaptureUnchanged
    /\ SessionsUnchanged
    /\ IF btn # 0
       THEN LET r == DeleteUser(userDatabase, userCount, userId) IN
            /\ userDatabase' = r.db
            /\ userCount' = r.count
            /\ ev' = [NoEvent EXCEPT !.op = "delete", !.flow = "delete",
                                     !.button = btn,
                                     !.id = userId, !.index = userIndex,
                                     !.ret = r.ret, !.priorCount = userCount,
                                     !.priorFails =
                                         userDatabase[userIndex].failedAttempts]
            /\ hist' = IF r.ret # 0
                       THEN [hist EXCEPT ![userId].consec = 0,
                                         ![userId].sinceUnlock = FALSE]
                       ELSE hist
       ELSE /\ ev' = [NoEvent EXCEPT !.button = btn]
            /\ UNCHANGED hist
            /\ StoreUnchanged
    /\ ToMenu

\* DELETE: the confirmation button; CENTER calls DeleteUser.
DeleteConfirm(btn) ==
    /\ pc = "del_confirm"
    /\ CaptureUnchanged
    /\ SessionsUnchanged
    /\ IF btn = 4
       THEN LET r == DeleteUser(userDatabase, userCount, userId) IN
            /\ userDatabase' = r.db
            /\ userCount' = r.count
            /\ ev' = [NoEvent EXCEPT !.op = "delete", !.flow = "delete",
                                     !.button = btn,
                                     !.id = userId, !.index = userIndex,
                                     !.ret = r.ret, !.priorCount = userCount,
                                     !.priorFails =
                                         userDatabase[userIndex].failedAttempts]
            /\ hist' = IF r.ret # 0
                       THEN [hist EXCEPT ![userId].consec = 0,
                                         ![userId].sinceUnlock = FALSE]
                       ELSE hist
       ELSE /\ ev' = [NoEvent EXCEPT !.button = btn]
            /\ UNCHANGED hist
            /\ StoreUnchanged
    /\ ToMenu

\* VerifyAdminPassword accepting every entry.
VerifyAdminPassword_Any(enteredPassword) == 1

\* LIST: VerifyAdminPassword (CollectDigits(4, "PASS") against ADMIN_PASSWORD).
VerifyAdminPassword(enteredPassword) ==
    IF enteredPassword = ADMIN_PASSWORD THEN 1 ELSE 0

ListPassword(enteredPassword) ==
    /\ pc = "list_pass"
    /\ CaptureUnchanged
    /\ SessionsUnchanged
    /\ ev' = [NoEvent EXCEPT !.op = "admin", !.flow = "list",
                             !.id = enteredPassword,
                             !.ret = VerifyAdminPassword(enteredPassword)]
    /\ UNCHANGED hist
    /\ StoreUnchanged
    /\ IF VerifyAdminPassword(enteredPassword) = 0
       THEN ToMenu
       ELSE /\ pc' = "list_menu"
            /\ listScreenIndex' = 0
            /\ listSelectedIndex' = 0
            /\ UNCHANGED <<screenIndex, selectedIndex, userId, userIndex,
                           lockedUserIds, navSelected, userIdToUnlock>>

\* DisplayLockedUsersWithNavigation: ids of the locked records, in slot order.
RECURSIVE LockedFrom(_, _)
LockedFrom(db, i) ==
    IF i >= DB_SIZE THEN <<>>
    ELSE IF db[i].isActive # 0 /\ db[i].failedAttempts >= LOCK_LIMIT
         THEN <<db[i].userId>> \o LockedFrom(db, i + 1)
         ELSE LockedFrom(db, i + 1)

\* LIST submenu: one WaitForButton result.
ListButton(btn) ==
    /\ pc = "list_menu"
    /\ CaptureUnchanged
    /\ SessionsUnchanged
    /\ ev' = NoEvent
    /\ UNCHANGED hist
    /\ StoreUnchanged
    /\ CASE btn = 0 ->
              /\ listScreenIndex' =
                     (IF listSelectedIndex > 0 THEN listScreenIndex
                      ELSE 1 - listScreenIndex)
              /\ listSelectedIndex' =
                     (IF listSelectedIndex > 0 THEN listSelectedIndex - 1
                      ELSE IF listScreenIndex = 0 THEN 1 ELSE 2)
              /\ UNCHANGED <<pc, screenIndex, selectedIndex, userId, userIndex,
                             lockedUserIds, navSelected, userIdToUnlock>>
         [] btn = 2 ->
              /\ LET last == IF listScreenIndex = 0 THEN 2 ELSE 1 IN
                 /\ listScreenIndex' =
                        (IF listSelectedIndex < last THEN listScreenIndex
                         ELSE 1 - listScreenIndex)
                 /\ listSelectedIndex' =
                        (IF listSelectedIndex < last THEN listSelectedIndex + 1
                         ELSE 0)
              /\ UNCHANGED <<pc, screenIndex, selectedIndex, userId, userIndex,
                             lockedUserIds, navSelected, userIdToUnlock>>
         [] btn = 4 ->
              LET actualIndex == IF listScreenIndex = 0 THEN listSelectedIndex
                                 ELSE listSelectedIndex + 3
                  locked == LockedFrom(userDatabase, 0)
              IN IF actualIndex = 4 THEN ToMenu
                 ELSE IF actualIndex = 2 /\ Len(locked) > 0
                 THEN /\ pc' = "locked_nav"
                      /\ lockedUserIds' = locked
                      /\ navSelected' = 0
                      /\ UNCHANGED <<screenIndex, selectedIndex, userId, userIndex,
                                     listScreenIndex, listSelectedIndex,
                                     userIdToUnlock>>
                 ELSE /\ pc' = "list_wait"
                      /\ UNCHANGED <<screenIndex, selectedIndex, userId, userIndex,
                                     listScreenIndex, listSelectedIndex,
                                     lockedUserIds, navSelected, userIdToUnlock>>
         [] btn = 3 -> ToMenu
         [] OTHER ->
              UNCHANGED <<pc, screenIndex, selectedIndex, userId, userIndex,
                          listScreenIndex, listSelectedIndex, lockedUserIds,
                          navSelected, userIdToUnlock>>

\* DisplayUserList without locked navigation: any button returns to the submenu.
ListDismiss(btn) ==
    /\ pc = "list_wait"
    /\ CaptureUnchanged
    /\ SessionsUnchanged
    /\ pc' = "list_menu"
    /\ ev' = NoEvent
    /\ UNCHANGED hist
    /\ StoreUnchanged
    /\ UNCHANGED <<screenIndex, selectedIndex, userId, userIndex, listScreenIndex,
                   listSelectedIndex, lockedUserIds, navSelected, userIdToUnlock>>

\* Locked list: one WaitForButton result of the navigation loop.
LockedNavButton(btn) ==
    /\ pc = "locked_nav"
    /\ CaptureUnchanged
    /\ SessionsUnchanged
    /\ ev' = NoEvent
    /\ UNCHANGED hist
    /\ StoreUnchanged
    /\ LET lockedCount == Len(lockedUserIds) IN
       CASE btn = 0 ->
              /\ navSelected' = (IF navSelected > 0 THEN navSelected - 1
                                 ELSE lockedCount - 1)
              /\ UNCHANGED <<pc, userIdToUnlock>>
         [] btn = 2 ->
              /\ navSelected' = (IF navSelected < lockedCount - 1
                                 THEN navSelected + 1 ELSE 0)
              /\ UNCHANGED <<pc, userIdToUnlock>>
         [] btn = 4 ->
              /\ userIdToUnlock' = lockedUserIds[navSelected + 1]
              /\ pc' = "unlock_confirm"
              /\ UNCHANGED navSelected
         [] btn = 3 ->
              /\ pc' = "list_menu"
              /\ navSelected' = 0
              /\ UNCHANGED userIdToUnlock
         [] OTHER -> UNCHANGED <<pc, navSelected, userIdToUnlock>>
    /\ lockedUserIds' = (IF btn = 3 THEN <<>> ELSE lockedUserIds)
    /\ UNCHANGED <<screenIndex, selectedIndex, userId, userIndex, listScreenIndex,
                   listSelectedIndex>>

\* lockedUserIds with entry i (0-based) shifted out.
RemoveAt(list, i) ==
    [k \in 1..(Len(list) - 1) |-> IF k <= i THEN list[k] ELSE list[k + 1]]

\* Locked list: the unlock confirmation button; CENTER calls UnlockUser.
UnlockConfirm(btn) ==
    /\ pc = "unlock_confirm"
    /\ CaptureUnchanged
    /\ SessionsUnchanged
    /\ UNCHANGED userCount
    /\ userIdToUnlock' = 0
    /\ UNCHANGED <<screenIndex, selectedIndex, userId, userIndex, listScreenIndex,
                   listSelectedIndex>>
    /\ IF btn = 4
       THEN LET r == UnlockUser(userDatabase, userIdToUnlock)
                index == FindUser(userDatabase, userIdToUnlock)
                rest == RemoveAt(lockedUserIds, navSelected)
            IN /\ userDatabase' = r.db
               /\ ev' = [NoEvent EXCEPT !.op = "unlock", !.flow = "list",
                                        !.button = btn,
                                        !.id = userIdToUnlock, !.index = index,
                                        !.ret = r.ret, !.priorCount = userCount,
                                        !.priorFails =
                                            IF index = -1 THEN 0
                                            ELSE userDatabase[index].failedAttempts]
               /\ IF r.ret # 0
                  THEN /\ hist' = [hist EXCEPT ![userIdToUnlock] =
                                      [consec |-> 0, sinceUnlock |-> TRUE,
                                       lastFails |-> 0]]
                       /\ lockedUserIds' = rest
                       /\ navSelected' =
                              (IF Len(rest) = 0 THEN 0
                               ELSE IF navSelected >= Len(rest) THEN Len(rest) - 1
                               ELSE navSelected)
                       /\ pc' = (IF Len(rest) = 0 THEN "list_menu" ELSE "locked_nav")
                  ELSE /\ UNCHANGED <<hist, lockedUserIds, navSelected>>
                       /\ pc' = "locked_nav"
       ELSE /\ ev' = [NoEvent EXCEPT !.button = btn]
            /\ pc' = "locked_nav"
            /\ UNCHANGED <<hist, userDatabase, lockedUserIds, navSelected>>

Next ==
    \/ \E btn \in Buttons : MenuButton(btn)
    \/ \E id \in Ids : RegisterEnterId(id)
    \/ \E pattern \in Patterns, gaps \in RegisterGaps : RegisterPattern(pattern, gaps)
    \/ \E id \in Ids : LoginEnterId(id)
    \/ \E pattern \in Patterns, gaps \in LoginGaps : LoginPattern(pattern, gaps)
    \/ \E id \in Ids : DeleteEnterId(id)
    \/ \E pattern \in Patterns, gaps \in LoginGaps : DeletePattern(pattern, gaps)
    \/ \E btn \in Buttons : DeleteConfirm(btn)
    \/ \E enteredPassword \in PasswordInputs : ListPassword(enteredPassword)
    \/ \E btn \in Buttons : ListButton(btn)
    \/ \E btn \in Buttons : ListDismiss(btn)
    \/ \E btn \in Buttons : LockedNavButton(btn)
    \/ \E btn \in Buttons : UnlockConfirm(btn)

Spec == Init /\ [][Next]_vars

\* ------------------------------------------------------------------ store API
\* The store functions called directly, in any order, with any arguments.
FlowUnchanged ==
    /\ UNCHANGED <<pc, screenIndex, selectedIndex, userId, userIndex,
                   listScreenIndex, listSelectedIndex, lockedUserIds, navSelected,
                   userIdToUnlock, hist>>
    /\ CaptureUnchanged
    /\ SessionsUnchanged

CallRegisterUser(id, pattern, gaps) ==
    LET timing == CaptureTiming(gaps)
        r == RegisterUser(userDatabase, userCount, id, pattern, timing)
    IN /\ userDatabase' = r.db
       /\ userCount' = r.count
       /\ ev' = [NoEvent EXCEPT !.op = "register", !.flow = "call", !.id = id,
                                !.index = FindUser(r.db, id), !.pattern = pattern,
                                !.timing = timing, !.ret = r.ret,
                                !.priorCount = userCount]
       /\ FlowUnchanged

CallDeleteUser(id) ==
    LET r == DeleteUser(userDatabase, userCount, id)
        index == FindUser(userDatabase, id)
    IN
    /\ userDatabase' = r.db
    /\ userCount' = r.count
    /\ ev' = [NoEvent EXCEPT !.op = "delete", !.flow = "call", !.id = id,
                             !.index = index, !.ret = r.ret,
                             !.priorCount = userCount,
                             !.priorFails =
                                 IF index = -1 THEN 0
                                 ELSE userDatabase[index].failedAttempts]
    /\ FlowUnchanged

CallUnlockUser(id) ==
    LET r == UnlockUser(userDatabase, id)
        index == FindUser(userDatabase, id)
    IN
    /\ userDatabase' = r.db
    /\ UNCHANGED userCount
    /\ ev' = [NoEvent EXCEPT !.op = "unlock", !.flow = "call", !.id = id,
                             !.index = index, !.ret = r.ret,
                             !.priorCount = userCount,
                             !.priorFails =
                                 IF index = -1 THEN 0
                                 ELSE userDatabase[index].failedAttempts]
    /\ FlowUnchanged

\* CallValidateLogin counting the failure in the record itself.
CallValidateLogin_CountsFailure(id, pattern, gaps) ==
    LET timing == CaptureTiming(gaps)
        index == FindUser(userDatabase, id)
        v == ValidateLogin(userDatabase, id, pattern, timing)
    IN /\ ev' = ValidateEvent("call", id, index, pattern, timing, v,
                              IF index = -1 THEN 0
                              ELSE userDatabase[index].failedAttempts)
       /\ userDatabase' = (IF v.ret = 0 /\ index # -1
                           THEN [userDatabase EXCEPT
                                     ![index].failedAttempts = (@ + 1) % UINT8]
                           ELSE userDatabase)
       /\ UNCHANGED <<userCount, hist>>
       /\ FlowUnchanged

CallValidateLogin(id, pattern, gaps) ==
    LET timing == CaptureTiming(gaps)
        index == FindUser(userDatabase, id)
        v == ValidateLogin(userDatabase, id, pattern, timing)
    IN /\ ev' = ValidateEvent("call", id, index, pattern, timing, v,
                              IF index = -1 THEN 0
                              ELSE userDatabase[index].failedAttempts)
       /\ StoreUnchanged
       /\ FlowUnchanged

NextStore ==
    \/ \E id \in StoreIds, pattern \in Patterns, gaps \in RegisterGaps :
           CallRegisterUser(id, pattern, gaps)
    \/ \E id \in StoreIds : CallDeleteUser(id)
    \/ \E id \in StoreIds : CallUnlockUser(id)
    \/ \E id \in StoreIds, pattern \in Patterns, gaps \in LoginGaps :
           CallValidateLogin(id, pattern, gaps)

SpecStore == Init /\ [][NextStore]_vars

\* ----------------------------------------------------------- ValidateLogin
\* ValidateLogin applied to one registered record, over inter-press gaps (in
\* 10 ms ticks) that reach the edges of the segment comparison: the exact 40 %
\* edge both ways, a quotient that truncates to 40, a difference whose
\* hundredfold exceeds 16 bits, the largest duration and the wrapped zero.
TruncStoredGaps == <<22, 22, 22, 20>>
EdgeStoredGaps == <<32768, 6553, 30, 50>>
TruncGaps == <<31, 31, 31, 20>>
EdgeGaps == <<6553, 1, 100, 70>>
LowEdgeGaps == <<32, 32, 32, 30>>
TwoMatchGaps == <<32, 48, 60, 30>>

ValidateStoredGaps == { BaseGaps, LongGaps, TruncStoredGaps, EdgeStoredGaps }
ValidateGaps ==
    { BaseGaps, WarnGaps, FailGaps, LongGaps, TruncGaps, EdgeGaps, LowEdgeGaps,
      TwoMatchGaps }

InitValidate ==
    /\ \E id \in StoreIds, pattern \in Patterns, gaps \in ValidateStoredGaps :
           LET r == RegisterUser(InitDatabase.db, InitDatabase.count, id, pattern,
                                 CaptureTiming(gaps))
           IN /\ userDatabase = r.db
              /\ userCount = r.count
    /\ pc = "menu"
    /\ screenIndex = 0
    /\ selectedIndex = 0
    /\ userId = 0
    /\ userIndex = -1
    /\ listScreenIndex = 0
    /\ listSelectedIndex = 0
    /\ lockedUserIds = <<>>
    /\ navSelected = 0
    /\ userIdToUnlock = 0
    /\ ev = NoEvent
    /\ hist = [id \in Ids |-> NoHistory]
    /\ CaptureIdle
    /\ sessions = NoSessions

NextValidate ==
    \E id \in StoreIds, pattern \in Patterns, gaps \in ValidateGaps :
        CallValidateLogin(id, pattern, gaps)

SpecValidate == InitValidate /\ [][NextValidate]_vars

\* ----------------------------------------------------------------- accounts
\* The store as the device uses it over its life: the four store functions
\* and whole login attempts (lock check, ValidateLogin, counter update), in
\* any order, on a table that is empty or that earlier registrations have
\* filled with NumFill other accounts.
NumFill == 9

\* The pattern the accounts are registered with; logins try every pattern.
AccountPattern == <<1, 3, 5, 2, 4>>

\* Ids of the accounts registered earlier: 21..25, 31..35.
FillerId(n) == CollectDigits(<<2 + ((n - 1) \div 5), 1 + ((n - 1) % 5)>>)

RECURSIVE FilledDatabase(_)
FilledDatabase(n) ==
    IF n = 0 THEN InitDatabase
    ELSE LET f == FilledDatabase(n - 1)
             r == RegisterUser(f.db, f.count, FillerId(n), AccountPattern,
                               CaptureTiming(BaseGaps))
         IN [db |-> r.db, count |-> r.count]

InitAccounts ==
    /\ \E n \in {0, NumFill} :
           /\ userDatabase = FilledDatabase(n).db
           /\ userCount = FilledDatabase(n).count
    /\ pc = "menu"
    /\ screenIndex = 0
    /\ selectedIndex = 0
    /\ userId = 0
    /\ userIndex = -1
    /\ listScreenIndex = 0
    /\ listSelectedIndex = 0
    /\ lockedUserIds = <<>>
    /\ navSelected = 0
    /\ userIdToUnlock = 0
    /\ ev = NoEvent
    /\ hist = [id \in Ids |-> NoHistory]
    /\ CaptureIdle
    /\ sessions = NoSessions

\* LOGIN from the ID prompt to the result: unknown and locked ids are turned
\* away before the pattern is asked for; otherwise ValidateLogin decides.
CallLogin(id, pattern, gaps) ==
    LET timing == CaptureTiming(gaps)
        index == FindUser(userDatabase, id)
    IN /\ IF index = -1 \/ IsLocked(userDatabase, index)
          THEN /\ ev' = NoEvent
               /\ UNCHANGED userDatabase
          ELSE LET v == ValidateLogin(userDatabase, id, pattern, timing) IN
               /\ userDatabase' = IF v.ret # 0
                                  THEN LoginSuccess(userDatabase, index)
                                  ELSE LoginFailure(userDatabase, index)
               /\ ev' = ValidateEvent("login", id, index, pattern, timing, v,
                                      userDatabase[index].failedAttempts)
       /\ UNCHANGED userCount
       /\ FlowUnchanged

NextAccounts ==
    \/ \E id \in StoreIds : CallRegisterUser(id, AccountPattern, BaseGaps)
    \/ \E id \in StoreIds : CallDeleteUser(id)
    \/ \E id \in StoreIds : CallUnlockUser(id)
    \/ \E id \in StoreIds, pattern \in Patterns :
           CallValidateLogin(id, pattern, BaseGaps)
    \/ \E id \in StoreIds, pattern \in Patterns :
           CallLogin(id, pattern, BaseGaps)

SpecAccounts == InitAccounts /\ [][NextAccounts]_vars

\* The main loop started on an empty table and on one nearly full.
SpecLoop == InitAccounts /\ [][Next]_vars

\* ------------------------------------------------------------ capture, ticks
\* One call of a capture routine, stepped one loop iteration at a time under
\* every raw reading of the touched channels; the other channels read FALSE.
MaxTicks == 21

TouchedChannels == {1, 3}

RawInputs == { [i \in Channels |-> i \in S] : S \in SUBSET TouchedChannels }

\* Iterations a settled reading is extended by: 65.54 s at 10 ms a tick.
WaitTicks == {6554}

\* Iterations a hold lasts: DebounceTicks, and more.
HoldTicks == {DebounceTicks, DebounceTicks + 1}

\* numDigits of the calls main() makes: 2 for an id, 4 for the password.
DigitCounts == {2, 4}

MainUnchanged ==
    UNCHANGED <<userDatabase, userCount, pc, screenIndex, selectedIndex, userId,
                userIndex, listScreenIndex, listSelectedIndex, lockedUserIds,
                navSelected, userIdToUnlock, ev, hist, sessions>>

MainIdle ==
    /\ userDatabase = InitDatabase.db
    /\ userCount = InitDatabase.count
    /\ pc = "menu"
    /\ screenIndex = 0
    /\ selectedIndex = 0
    /\ userId = 0
    /\ userIndex = -1
    /\ listScreenIndex = 0
    /\ listSelectedIndex = 0
    /\ lockedUserIds = <<>>
    /\ navSelected = 0
    /\ userIdToUnlock = 0
    /\ ev = NoEvent
    /\ hist = [id \in Ids |-> NoHistory]

Entered(fn, numDigits) ==
    [fn |-> fn, state |-> "running", numDigits |-> numDigits, result |-> 0,
     steps |-> 0]

InitCapture ==
    /\ MainIdle
    /\ patternFrame = InitPatternFrame
    /\ digitsFrame = InitDigitsFrame
    /\ buttonFrame = InitButtonFrame
    /\ call \in {Entered("CollectPattern", 0), Entered("WaitForButton", 0)}
                \cup {Entered("CollectDigits", n) : n \in DigitCounts}
    /\ obs = NoObs
    /\ sessions = NoSessions

Running(fn) == call.fn = fn /\ call.state = "running"

\* The tick's reading and what its search for the highest aggregate found.
Observed(buttons, scanned, aggr) ==
    [obs EXCEPT !.buttons = buttons,
                !.scanned = scanned,
                !.reported = IF scanned THEN MaxButton(aggr) ELSE NO_BUTTON,
                !.prevReported = obs.reported,
                !.runChan = NO_BUTTON,
                !.runLen = 0,
                !.runOthers = 0]

\* The same after n iterations on which channel c alone read touched, begun
\* with the aggregates before.
ObservedHold(c, n, before, prevReported, aggr) ==
    [obs EXCEPT !.buttons = OnlyChannel(c),
                !.scanned = TRUE,
                !.reported = MaxButton(aggr),
                !.prevReported = prevReported,
                !.runChan = c,
                !.runLen = n,
                !.runOthers = HighestOther(before, c)]

PatternTick(buttons) ==
    /\ Running("CollectPattern")
    /\ call.steps < MaxTicks
    /\ \E f \in {PatternStep(patternFrame, buttons)} :
       /\ patternFrame' = f
       /\ call' = [call EXCEPT !.steps = @ + 1,
                               !.state = IF f.patternLen < PATTERN_LENGTH
                                         THEN "running" ELSE "returned"]
       /\ obs' = Observed(buttons, TRUE, f.aggr)
    /\ UNCHANGED <<digitsFrame, buttonFrame>>
    /\ MainUnchanged

\* n more iterations under the reading of the last tick, once an iteration
\* under it changes nothing but currentTime: every one of them does the same.
\* Taken at most once in a call.
PatternWait(n) ==
    /\ Running("CollectPattern")
    /\ obs.scanned
    /\ patternFrame.currentTime < MaxTicks
    /\ PatternStep(patternFrame, obs.buttons)
           = [patternFrame EXCEPT !.currentTime = @ + 1]
    /\ patternFrame' = [patternFrame EXCEPT !.currentTime = @ + n]
    /\ UNCHANGED <<digitsFrame, buttonFrame, call, obs>>
    /\ MainUnchanged

DigitsTick(buttons) ==
    /\ Running("CollectDigits")
    /\ \E f \in {DigitsStep(digitsFrame, buttons)} :
       LET registered == f.digitCount > digitsFrame.digitCount
           scanned == digitsFrame.digitRegistered = 0 \/ AllReleased(f.aggr) = 1
           o == Observed(buttons, scanned, f.aggr)
       IN /\ digitsFrame' = f
          /\ call' = IF f.digitCount < call.numDigits THEN call
                     ELSE [call EXCEPT !.state = "returned",
                                       !.result = CollectDigits(f.input)]
          /\ obs' = IF registered
                    THEN [o EXCEPT !.chans = Append(obs.chans, MaxButton(f.aggr)),
                                   !.released = FALSE,
                                   !.held = TRUE]
                    ELSE [o EXCEPT !.released =
                                       \/ obs.released
                                       \/ \A i \in Channels :
                                              f.aggr[i] <= RELEASE_THRESHOLD,
                                   !.held =
                                       /\ obs.held
                                       /\ buttons[obs.chans[Len(obs.chans)]]]
    /\ UNCHANGED <<patternFrame, buttonFrame>>
    /\ MainUnchanged

ButtonTick(buttons) ==
    /\ Running("WaitForButton")
    /\ LET f == ButtonStep(buttonFrame, buttons) IN
       /\ buttonFrame' = f
       /\ call' = IF f.ret = NO_BUTTON THEN call
                  ELSE [call EXCEPT !.state = "returned", !.result = f.ret]
       /\ obs' = Observed(buttons, TRUE, f.aggr)
    /\ UNCHANGED <<patternFrame, digitsFrame>>
    /\ MainUnchanged

\* n iterations on which channel c alone reads touched.
PatternHold(c, n) ==
    /\ Running("CollectPattern")
    /\ call.steps + n <= MaxTicks
    /\ \E before \in {PatternSteps(patternFrame, OnlyChannel(c), n - 1)} :
       \E f \in {PatternStep(before, OnlyChannel(c))} :
          /\ before.patternLen < PATTERN_LENGTH
          /\ patternFrame' = f
          /\ call' = [call EXCEPT !.steps = @ + n,
                                  !.state = IF f.patternLen < PATTERN_LENGTH
                                            THEN "running" ELSE "returned"]
          /\ obs' = ObservedHold(c, n, patternFrame.aggr,
                                 MaxButton(before.aggr), f.aggr)
    /\ UNCHANGED <<digitsFrame, buttonFrame>>
    /\ MainUnchanged

\* The same in WaitForButton, when none of the first n - 1 returns.
ButtonHold(c, n) ==
    /\ Running("WaitForButton")
    /\ \E before \in {ButtonSteps(buttonFrame, OnlyChannel(c), n - 1)} :
       \E f \in {ButtonStep(before, OnlyChannel(c))} :
          /\ before.ret = NO_BUTTON
          /\ buttonFrame' = f
          /\ call' = IF f.ret = NO_BUTTON THEN call
                     ELSE [call EXCEPT !.state = "returned", !.result = f.ret]
          /\ obs' = ObservedHold(c, n, buttonFrame.aggr,
                                 MaxButton(before.aggr), f.aggr)
    /\ UNCHANGED <<patternFrame, digitsFrame>>
    /\ MainUnchanged

NextCapture ==
    \/ \E buttons \in RawInputs : PatternTick(buttons)
    \/ \E n \in WaitTicks : PatternWait(n)
    \/ \E c \in TouchedChannels, n \in HoldTicks : PatternHold(c, n)
    \/ \E c \in TouchedChannels, n \in HoldTicks : ButtonHold(c, n)
    \/ \E buttons \in RawInputs : DigitsTick(buttons)
    \/ \E buttons \in RawInputs : ButtonTick(buttons)

SpecCapture == InitCapture /\ [][NextCapture]_vars

\* ----------------------------------------------------------- capture, swipes
\* One CollectPattern call over all five channels, the finger resting on one
\* channel or on none for a stretch of ticks at a time, followed by the
\* register flow's RegisterUser call with what it returned.
MaxPhases == 5

\* Ticks a rest lasts: enough for the touched channel to overtake the last.
RestTicks == {16}

SingleTouches == { OnlyChannel(c) : c \in Channels } \cup {NoTouch}

InitSwipe ==
    /\ MainIdle
    /\ patternFrame = InitPatternFrame
    /\ digitsFrame = InitDigitsFrame
    /\ buttonFrame = InitButtonFrame
    /\ call = Entered("CollectPattern", 0)
    /\ obs = NoObs
    /\ sessions = NoSessions

\* n loop iterations under one raw reading.
PatternRest(buttons, n) ==
    /\ Running("CollectPattern")
    /\ call.steps < MaxPhases
    /\ \E f \in {PatternSteps(patternFrame, buttons, n)} :
       /\ patternFrame' = f
       /\ call' = [call EXCEPT !.steps = @ + 1,
                               !.state = IF f.patternLen < PATTERN_LENGTH
                                         THEN "running" ELSE "returned"]
       /\ obs' = Observed(buttons, TRUE, f.aggr)
    /\ UNCHANGED <<digitsFrame, buttonFrame>>
    /\ MainUnchanged

\* REGISTER after CollectPattern has returned: RegisterUser(userId, pattern,
\* timing) with the arrays it filled.
RegisterCaptured(id) ==
    /\ call.fn = "CollectPattern"
    /\ call.state = "returned"
    /\ LET r == RegisterUser(userDatabase, userCount, id, patternFrame.pattern,
                             patternFrame.timing)
       IN /\ userDatabase' = r.db
          /\ userCount' = r.count
          /\ ev' = [NoEvent EXCEPT !.op = "register", !.flow = "register",
                                   !.id = id, !.index = FindUser(r.db, id),
                                   !.pattern = patternFrame.pattern,
                                   !.timing = patternFrame.timing,
                                   !.ret = r.ret, !.priorCount = userCount]
    /\ call' = [call EXCEPT !.state = "idle"]
    /\ UNCHANGED <<pc, screenIndex, selectedIndex, userId, userIndex,
                   listScreenIndex, listSelectedIndex, lockedUserIds, navSelected,
                   userIdToUnlock, hist, patternFrame, digitsFrame, buttonFrame,
                   obs, sessions>>

\* DELETE confirmed, once the register flow is over.
DeleteRegistered(id) ==
    /\ call.fn = "CollectPattern"
    /\ call.state = "idle"
    /\ CallDeleteUser(id)

NextSwipe ==
    \/ \E buttons \in SingleTouches, n \in RestTicks : PatternRest(buttons, n)
    \/ \E id \in StoreIds : RegisterCaptured(id)
    \/ \E id \in StoreIds : DeleteRegistered(id)

SpecSwipe == InitSwipe /\ [][NextSwipe]_vars

\* ----------------------------------------------------------- capture, pauses
\* One CollectPattern call in which the finger may be lifted between two
\* touches for as long as the user likes: nothing in the loop bounds the time
\* between two accepted channels.

\* The shortest gap whose tenfold is a multiple of 2^16.
WrapGap == UINT16 \div 2

\* Ticks after the last acceptance at which the next touch begins: it is
\* accepted DebounceTicks - 1 ticks later, WrapGap after the last.
LiftTicks == {WrapGap - (DebounceTicks - 1)}

\* The finger is lifted until d ticks after the last acceptance. AGGR_MAX
\* iterations without a touch bring every aggregate to 0; every further one
\* changes nothing but currentTime. Taken at most once in a call.
PatternLift(d) ==
    /\ Running("CollectPattern")
    /\ patternFrame.patternLen > 0
    /\ patternFrame.currentTime < d
    /\ \E half \in {PatternSteps(patternFrame, NoTouch, AGGR_MAX \div 2)} :
       \E f \in {PatternSteps(half, NoTouch, AGGR_MAX \div 2)} :
          /\ f.patternLen < PATTERN_LENGTH
          /\ f.aggr = ZeroAggr
          /\ f.currentTime <= f.lastButtonTime + d
          /\ patternFrame' = [f EXCEPT !.currentTime = f.lastButtonTime + d]
          /\ obs' = Observed(NoTouch, TRUE, f.aggr)
    /\ UNCHANGED <<digitsFrame, buttonFrame, call>>
    /\ MainUnchanged

NextPause ==
    \/ \E c \in Channels, n \in RestTicks : PatternRest(OnlyChannel(c), n)
    \/ \E d \in LiftTicks : PatternLift(d)

SpecPause == InitSwipe /\ [][NextPause]_vars

\* -------------------------------------------------------- capture, debouncer
\* The aggregate update and the search for the highest aggregate that
\* CollectPattern and CollectDigits share, as functions of the aggr array:
\* applied, a run of iterations at a time, to arrays drawn from 0..AGGR_MAX.
\* patternFrame.aggr holds the array; no routine is in a call.

\* Aggregates the arrays start from: rest, the threshold and just above it,
\* halfway, the ceiling.
Levels == {0, THRESHOLD, THRESHOLD + 1, AGGR_MAX \div 2, AGGR_MAX}

\* Iterations after which a channel read alone is above every other one.
SettleTicks == (AGGR_MAX \div 2) + 1

\* Iterations after which an untouched channel is at THRESHOLD or below.
ReleaseTicks == AGGR_MAX - THRESHOLD

\* Mutant: one iteration fewer.
RECURSIVE AggrAfter_OneShort(_, _, _)
AggrAfter_OneShort(aggr, buttons, n) ==
    IF n <= 1 THEN aggr
    ELSE CHOOSE r \in { AggrAfter_OneShort(next, buttons, n - 1) :
                        next \in {UpdateAggr(aggr, buttons)} } : TRUE

\* aggr after n iterations of the update under one raw reading.
RECURSIVE AggrAfter(_, _, _)
AggrAfter(aggr, buttons, n) ==
    IF n = 0 THEN aggr
    ELSE CHOOSE r \in { AggrAfter(next, buttons, n - 1) :
                        next \in {UpdateAggr(aggr, buttons)} } : TRUE

InitDebounce ==
    /\ MainIdle
    /\ \E aggr \in [Channels -> Levels] :
           patternFrame = [InitPatternFrame EXCEPT !.aggr = aggr]
    /\ digitsFrame = InitDigitsFrame
    /\ buttonFrame = InitButtonFrame
    /\ call = NoCall
    /\ obs = NoObs
    /\ sessions = NoSessions

\* SettleTicks iterations on which channel c alone reads touched.
DebounceHold(c) ==
    /\ call = NoCall
    /\ \E aggr \in {AggrAfter(patternFrame.aggr, OnlyChannel(c), SettleTicks)} :
       /\ patternFrame' = [patternFrame EXCEPT !.aggr = aggr]
       /\ obs' = ObservedHold(c, SettleTicks, patternFrame.aggr, obs.reported,
                              aggr)
    /\ UNCHANGED <<digitsFrame, buttonFrame, call>>
    /\ MainUnchanged

\* ReleaseTicks iterations on which no channel reads touched.
DebounceRelease ==
    /\ call = NoCall
    /\ \E aggr \in {AggrAfter(patternFrame.aggr, NoTouch, ReleaseTicks)} :
       /\ patternFrame' = [patternFrame EXCEPT !.aggr = aggr]
       /\ obs' = [Observed(NoTouch, TRUE, aggr) EXCEPT !.runLen = ReleaseTicks]
    /\ UNCHANGED <<digitsFrame, buttonFrame, call>>
    /\ MainUnchanged

NextDebounce ==
    \/ \E c \in Channels : DebounceHold(c)
    \/ DebounceRelease

SpecDebounce == InitDebounce /\ [][NextDebounce]_vars

\* ------------------------------------------------------------- capture, waits
\* WaitForButton calls, one loop iteration at a time under every raw reading
\* of two channels, or with one channel held until the call returns.
InitWait ==
    /\ MainIdle
    /\ patternFrame = InitPatternFrame
    /\ digitsFrame = InitDigitsFrame
    /\ buttonFrame = InitButtonFrame
    /\ call = Entered("WaitForButton", 0)
    /\ obs = NoObs
    /\ sessions = NoSessions

\* Channel c alone reads touched for DebounceTicks iterations, or until the
\* call returns if that comes first.
ButtonHeld(c) ==
    /\ Running("WaitForButton")
    /\ \E before \in {ButtonLastStep(buttonFrame, OnlyChannel(c), DebounceTicks)} :
       \E f \in {ButtonStep(before, OnlyChannel(c))} :
          /\ buttonFrame' = f
          /\ call' = IF f.ret = NO_BUTTON THEN call
                     ELSE [call EXCEPT !.state = "returned", !.result = f.ret]
          /\ obs' = [Observed(OnlyChannel(c), TRUE, f.aggr)
                        EXCEPT !.prevReported = MaxButton(before.aggr)]
    /\ UNCHANGED <<patternFrame, digitsFrame>>
    /\ MainUnchanged

HoldSome == \E c \in TouchedChannels : ButtonHeld(c)

NextWait ==
    \/ \E buttons \in RawInputs : ButtonTick(buttons)
    \/ \E c \in TouchedChannels, n \in HoldTicks : ButtonHold(c, n)
    \/ HoldSome

SpecWait == InitWait /\ [][NextWait]_vars

\* The user does hold some channel for DebounceTicks iterations in the end.
SpecWaitLive == SpecWait /\ WF_vars(HoldSome)

\* ------------------------------------------------------------ capture, calls
\* Successive WaitForButton calls, as the menu loop makes them: one loop
\* iteration at a time under every raw reading of two channels, and the next
\* call once one has returned. call.steps counts the iterations of the call.
MaxCalls == 2

\* One iteration of the call in progress.
WaitTick(buttons) ==
    /\ Running("WaitForButton")
    /\ call.steps < MaxTicks
    /\ \E f \in {ButtonStep(buttonFrame, buttons)} :
       LET first == Len(obs.chans) = 0 /\ call.steps = 0
           single == \E c \in Channels : buttons = OnlyChannel(c)
           c == CHOOSE i \in Channels : buttons = OnlyChannel(i)
           o == Observed(buttons, TRUE, f.aggr)
       IN /\ buttonFrame' = f
          /\ call' = IF f.ret = NO_BUTTON
                     THEN [call EXCEPT !.steps = @ + 1]
                     ELSE [call EXCEPT !.steps = @ + 1, !.state = "returned",
                                       !.result = f.ret]
          /\ obs' = [o EXCEPT !.runChan = IF single THEN c ELSE NO_BUTTON,
                              !.held = /\ single
                                       /\ first \/ (obs.held /\ obs.runChan = c),
                              !.chans = IF f.ret = NO_BUTTON THEN obs.chans
                                        ELSE Append(obs.chans, f.ret)]
    /\ UNCHANGED <<patternFrame, digitsFrame>>
    /\ MainUnchanged

\* Mutant: the aggregates of the call before are kept.
WaitAgain_KeepsAggr ==
    /\ call.fn = "WaitForButton"
    /\ call.state = "returned"
    /\ Len(obs.chans) < MaxCalls
    /\ buttonFrame' = [InitButtonFrame EXCEPT !.aggr = buttonFrame.aggr]
    /\ call' = Entered("WaitForButton", 0)
    /\ UNCHANGED <<patternFrame, digitsFrame, obs>>
    /\ MainUnchanged

\* The loop around the call comes back to it: a new call, with new locals.
WaitAgain ==
    /\ call.fn = "WaitForButton"
    /\ call.state = "returned"
    /\ Len(obs.chans) < MaxCalls
    /\ buttonFrame' = InitButtonFrame
    /\ call' = Entered("WaitForButton", 0)
    /\ UNCHANGED <<patternFrame, digitsFrame, obs>>
    /\ MainUnchanged

NextCalls ==
    \/ \E buttons \in RawInputs : WaitTick(buttons)
    \/ WaitAgain

SpecCalls == InitWait /\ [][NextCalls]_vars

\* ------------------------------------------------------------------ sessions
\* Two callers sharing the store, each stepping RegisterUser or DeleteUser one
\* statement group at a time; with locking a call starts only when it can take
\* the lock, which it gives back when it returns.
MaxOps == 2

InitSessions ==
    /\ MainIdle
    /\ CaptureIdle
    /\ \E locking \in BOOLEAN : sessions = [NoSessions EXCEPT !.locking = locking]

SessionFrame ==
    /\ UNCHANGED <<pc, screenIndex, selectedIndex, userId, userIndex,
                   listScreenIndex, listSelectedIndex, lockedUserIds, navSelected,
                   userIdToUnlock, ev, hist>>
    /\ CaptureUnchanged

At(p, where) == sessions.proc[p].pc = where

\* Mutant: a call starts whether or not the lock is free.
CanEnter_NoLock(p) ==
    /\ sessions.proc[p].pc = "idle"
    /\ sessions.proc[p].ops < MaxOps

CanEnter(p) ==
    /\ sessions.proc[p].pc = "idle"
    /\ sessions.proc[p].ops < MaxOps
    /\ sessions.locking => sessions.lock = 0

Entering(p, id, where) ==
    [sessions EXCEPT !.lock = IF sessions.locking THEN p ELSE 0,
                     !.proc[p].pc = where,
                     !.proc[p].id = id,
                     !.proc[p].i = -1]

Goto(p, where) == [sessions EXCEPT !.proc[p].pc = where]

Returning(p) ==
    [sessions EXCEPT !.lock = 0,
                     !.proc[p].pc = "idle",
                     !.proc[p].ops = @ + 1]

\* RegisterUser(userId, ...) is called.
RegisterEnter(p, id) ==
    /\ CanEnter(p)
    /\ sessions' = Entering(p, id, "reg_full")
    /\ StoreUnchanged
    /\ SessionFrame

\* if (userCount >= 10) return 0;
RegisterFull(p) ==
    /\ At(p, "reg_full")
    /\ sessions' = IF userCount >= DB_SIZE THEN Returning(p)
                   ELSE Goto(p, "reg_find")
    /\ StoreUnchanged
    /\ SessionFrame

\* if (FindUser(userId) != -1) return 0;
RegisterFind(p) ==
    /\ At(p, "reg_find")
    /\ sessions' = IF FindUser(userDatabase, sessions.proc[p].id) # -1
                   THEN Returning(p)
                   ELSE Goto(p, "reg_slot")
    /\ StoreUnchanged
    /\ SessionFrame

\* for (i ...) if (!userDatabase[i].isActive): the first free slot is found.
RegisterSlot(p) ==
    /\ At(p, "reg_slot")
    /\ LET i == FirstFreeFrom(userDatabase, 0) IN
       sessions' = IF i = -1 THEN Returning(p)
                   ELSE [Goto(p, "reg_write") EXCEPT !.proc[p].i = i]
    /\ StoreUnchanged
    /\ SessionFrame

\* userId, pattern[] and timing[] of the slot are written.
RegisterWrite(p) ==
    /\ At(p, "reg_write")
    /\ userDatabase' =
           [userDatabase EXCEPT ![sessions.proc[p].i].userId = sessions.proc[p].id,
                                ![sessions.proc[p].i].pattern = AccountPattern,
                                ![sessions.proc[p].i].timing =
                                    CaptureTiming(BaseGaps)]
    /\ sessions' = Goto(p, "reg_active")
    /\ UNCHANGED userCount
    /\ SessionFrame

\* isActive = 1; failedAttempts = 0; isLoggedIn = 0;
RegisterActivate(p) ==
    /\ At(p, "reg_active")
    /\ userDatabase' =
           [userDatabase EXCEPT ![sessions.proc[p].i].isActive = 1,
                                ![sessions.proc[p].i].failedAttempts = 0,
                                ![sessions.proc[p].i].isLoggedIn = 0]
    /\ sessions' = Goto(p, "reg_count")
    /\ UNCHANGED userCount
    /\ SessionFrame

\* userCount++; return 1;
RegisterCount(p) ==
    /\ At(p, "reg_count")
    /\ userCount' = (userCount + 1) % UINT8
    /\ sessions' = Returning(p)
    /\ UNCHANGED userDatabase
    /\ SessionFrame

\* DeleteUser(userId) is called.
DeleteEnter(p, id) ==
    /\ CanEnter(p)
    /\ sessions' = Entering(p, id, "del_find")
    /\ StoreUnchanged
    /\ SessionFrame

\* index = FindUser(userId); if (index == -1) return 0;
DeleteFind(p) ==
    /\ At(p, "del_find")
    /\ LET index == FindUser(userDatabase, sessions.proc[p].id) IN
       sessions' = IF index = -1 THEN Returning(p)
                   ELSE [Goto(p, "del_clear") EXCEPT !.proc[p].i = index]
    /\ StoreUnchanged
    /\ SessionFrame

\* isActive = 0 and every other field of the slot cleared.
DeleteClear(p) ==
    /\ At(p, "del_clear")
    /\ userDatabase' = [userDatabase EXCEPT ![sessions.proc[p].i] = EmptyUser]
    /\ sessions' = Goto(p, "del_count")
    /\ UNCHANGED userCount
    /\ SessionFrame

\* userCount--; return 1;
DeleteCount(p) ==
    /\ At(p, "del_count")
    /\ userCount' = (userCount - 1) % UINT8
    /\ sessions' = Returning(p)
    /\ UNCHANGED userDatabase
    /\ SessionFrame

NextSessions ==
    \/ \E p \in Procs, id \in StoreIds : RegisterEnter(p, id)
    \/ \E p \in Procs : RegisterFull(p)
    \/ \E p \in Procs : RegisterFind(p)
    \/ \E p \in Procs : RegisterSlot(p)
    \/ \E p \in Procs : RegisterWrite(p)
    \/ \E p \in Procs : RegisterActivate(p)
    \/ \E p \in Procs : RegisterCount(p)
    \/ \E p \in Procs, id \in StoreIds : DeleteEnter(p, id)
    \/ \E p \in Procs : DeleteFind(p)
    \/ \E p \in Procs : DeleteClear(p)
    \/ \E p \in Procs : DeleteCount(p)

SpecSessions == InitSessions /\ [][NextSessions]_vars

\* ------------------------------------------------------------------ claims
Slots == 0..(DB_SIZE - 1)
Segments == 1..(PATTERN_LENGTH - 1)
Validated == ev.op = "validate"

\* C1: once an account is locked (failedAttempts has reached 3), no flow of the
\* main loop evaluates a validation for that id until it is unlocked.
C1_NoValidationWhileLocked ==
    (Validated /\ ev.flow \in {"login", "delete"}) => ev.priorFails < LOCK_LIMIT

\* C2: an existing account is locked (failedAttempts = 3) exactly when its last
\* three validations in a row failed; fewer consecutive failures never lock it.
C2_ThreeConsecutiveFailuresLock ==
    \A id \in Ids :
        LET index == FindUser(userDatabase, id) IN
        index # -1 =>
            (hist[id].consec >= LOCK_LIMIT
                <=> userDatabase[index].failedAttempts = LOCK_LIMIT)

\* C3: every failed validation of an existing, unlocked account, in any flow,
\* increments that account's failedAttempts by exactly 1.
C3_FailureIncrements ==
    (Validated /\ ev.ret = 0 /\ ev.index # -1 /\ ev.priorFails < LOCK_LIMIT)
        => userDatabase[ev.index].failedAttempts = ev.priorFails + 1

\* C4: every successful validation, in any flow, resets failedAttempts to 0 and
\* sets the loggedIn flag.
C4_SuccessResetsAndLogsIn ==
    (Validated /\ ev.ret = 1)
        => /\ userDatabase[ev.index].failedAttempts = 0
           /\ userDatabase[ev.index].isLoggedIn = 1

\* C5: after UnlockUser(id) on a locked account, a login with the registered
\* pattern and the registered timing vector succeeds and leaves failedAttempts 0.
C5_UnlockThenCorrectLogin ==
    [][\A id \in Ids :
          (/\ hist[id].sinceUnlock
           /\ ev'.op = "validate" /\ ev'.flow = "login" /\ ev'.id = id
           /\ ev'.pattern = userDatabase[ev'.index].pattern
           /\ ev'.timing = userDatabase[ev'.index].timing)
          => (ev'.ret = 1 /\ userDatabase'[ev'.index].failedAttempts = 0)]_vars

C7_FailedAttemptsRange ==
    \A i \in Slots : userDatabase[i].failedAttempts \in 0..LOCK_LIMIT

\* A locked account is refused at the login prompt.
C7_Witness ==
    \E i \in Slots :
        /\ userDatabase[i].isActive = 1
        /\ userDatabase[i].failedAttempts = LOCK_LIMIT
        /\ ev.op = "validate" /\ ev.flow = "login" /\ ev.index = i

\* A timing segment within tolerance, as the claims define it.
WithinTolerance(stored, submitted) ==
    /\ stored # 0
    /\ submitted # 0
    /\ ((IF stored > submitted THEN stored - submitted ELSE submitted - stored) * 100)
           \div stored <= TIMING_TOLERANCE_PERCENT

MatchingSegments(stored, submitted) ==
    { k \in Segments : WithinTolerance(stored[k], submitted[k]) }

ActiveSlotsOf(id) ==
    { i \in Slots : userDatabase[i].isActive = 1 /\ userDatabase[i].userId = id }

\* C8: ValidateLogin returns 1 exactly when the id is found, the submitted
\* pattern equals the stored one and at least 2 timing segments match.
C8_TwoGates ==
    Validated =>
        (ev.ret = 1 <=>
            \E i \in ActiveSlotsOf(ev.id) :
                /\ userDatabase[i].pattern = ev.pattern
                /\ Cardinality(MatchingSegments(userDatabase[i].timing, ev.timing))
                       >= MIN_SEGMENTS_REQUIRED)

\* A login with the exact pattern and a mismatching segment still succeeds.
C8_Witness ==
    /\ Validated /\ ev.ret = 1 /\ ev.index # -1
    /\ userDatabase[ev.index].pattern = ev.pattern
    /\ \E k \in Segments :
           ~WithinTolerance(userDatabase[ev.index].timing[k], ev.timing[k])

\* C9: an id that is not found, or a pattern that differs from the stored one,
\* gives Fail with warning flag 0 and every per-segment flag 0.
C9_WrongPatternFails ==
    (Validated /\ \A i \in ActiveSlotsOf(ev.id) : userDatabase[i].pattern # ev.pattern)
        => (ev.ret = 0 /\ ev.warning = 0 /\ \A k \in Segments : ev.segs[k] = 0)

\* A wrong pattern submitted with the stored (matching) timing vector.
C9_Witness ==
    /\ Validated /\ ev.index # -1
    /\ userDatabase[ev.index].pattern # ev.pattern
    /\ userDatabase[ev.index].timing = ev.timing
    /\ \A k \in Segments : ev.timing[k] # 0

\* C10: validating an id with the same pattern and timing vector right after
\* registering it returns Success without warning, every segment flag set.
C10_FreshAccountValidates ==
    [][(/\ ev.op = "register" /\ ev.ret = 1
        /\ ev'.op = "validate" /\ ev'.id = ev.id
        /\ ev'.pattern = ev.pattern /\ ev'.timing = ev.timing)
       => (/\ ev'.ret = 1 /\ ev'.warning = 0
           /\ \A k \in Segments : ev'.segs[k] = 1)]_vars

\* The validation of the last step compared timing segments: the id was found
\* and the submitted pattern equals the stored one.
TimingCompared ==
    /\ Validated /\ ev.index # -1
    /\ userDatabase[ev.index].pattern = ev.pattern

AbsDiff(a, b) == IF a > b THEN a - b ELSE b - a

\* C11: a timing segment is flagged as match exactly when the stored and the
\* submitted duration are both nonzero and the integer quotient
\* |stored - submitted| * 100 / stored is at most 40, that is when
\* |stored - submitted| * 100 < 41 * stored; a zero duration on either side
\* is a mismatch, over the whole 16-bit range.
C11_SegmentFlag ==
    TimingCompared =>
        \A k \in Segments :
            LET stored == userDatabase[ev.index].timing[k]
                submitted == ev.timing[k]
            IN /\ stored \in 0..(UINT16 - 1)
               /\ submitted \in 0..(UINT16 - 1)
               /\ (ev.segs[k] = 1) <=>
                      (/\ stored # 0
                       /\ submitted # 0
                       /\ AbsDiff(stored, submitted) * 100
                              < (TIMING_TOLERANCE_PERCENT + 1) * stored)

\* One validation with a zero stored duration against a nonzero input, a
\* segment whose hundredfold difference needs more than 16 bits, and a
\* segment exactly on the 40 % edge.
C11_Witness ==
    /\ TimingCompared
    /\ \E k \in Segments :
           /\ userDatabase[ev.index].timing[k] = 0
           /\ ev.timing[k] # 0
           /\ ev.segs[k] = 0
    /\ \E k \in Segments :
           /\ AbsDiff(userDatabase[ev.index].timing[k], ev.timing[k]) * 100 >= UINT16
           /\ userDatabase[ev.index].timing[k] # 0
           /\ ev.timing[k] # 0
           /\ ev.segs[k] = 0
    /\ \E k \in Segments :
           /\ AbsDiff(userDatabase[ev.index].timing[k], ev.timing[k]) * 100
                  = TIMING_TOLERANCE_PERCENT * userDatabase[ev.index].timing[k]
           /\ ev.segs[k] = 1

\* Segments of the submitted vector that are longer than pct % of the stored
\* duration (strict) or at least pct % of it.
ScaledAbove(pct) ==
    { k \in Segments :
          /\ userDatabase[ev.index].timing[k] # 0
          /\ ev.timing[k] * 100 > pct * userDatabase[ev.index].timing[k] }

ScaledAtLeast(pct) ==
    { k \in Segments :
          /\ userDatabase[ev.index].timing[k] # 0
          /\ ev.timing[k] * 100 >= pct * userDatabase[ev.index].timing[k] }

FlaggedSegments == { k \in Segments : ev.segs[k] = 1 }

NeverPlainSuccess ==
    /\ ~(ev.ret = 1 /\ ev.warning = 0)
    /\ IF Cardinality(FlaggedSegments) >= MIN_SEGMENTS_REQUIRED
       THEN ev.ret = 1 /\ ev.warning = 1
       ELSE ev.ret = 0

\* C12 as stated: with the correct pattern and 3 of the 4 segments scaled to
\* more than 140 % of the stored duration, the outcome is never plain
\* Success: Success-with-Warning if at least 2 segments match, Fail otherwise.
C12_ScaledAbove140 ==
    (TimingCompared
         /\ Cardinality(ScaledAbove(100 + TIMING_TOLERANCE_PERCENT))
                = PATTERN_LENGTH - 2)
        => NeverPlainSuccess

\* C12 amended: the same with the 3 segments scaled to at least 141 % of the
\* stored duration, the first scale whose integer percentage exceeds 40.
C12_ScaledAtLeast141 ==
    (TimingCompared
         /\ Cardinality(ScaledAtLeast(100 + TIMING_TOLERANCE_PERCENT + 1))
                = PATTERN_LENGTH - 2)
        => NeverPlainSuccess

\* Three segments at twice the stored duration, the fourth unchanged.
C12_Witness ==
    /\ TimingCompared
    /\ Cardinality(ScaledAtLeast(100 + TIMING_TOLERANCE_PERCENT + 1))
           = PATTERN_LENGTH - 2
    /\ \E k \in Segments : ev.timing[k] = userDatabase[ev.index].timing[k]
    /\ ev.ret = 0

\* C13: with the pattern matching, the outcome follows from the number m of
\* matching segments: Fail without warning if m < 2, Success with warning if
\* 2 <= m < N - 1, Success without warning if m = N - 1; the per-segment
\* flags are the matching segments.
C13_OutcomeByMatches ==
    TimingCompared =>
        LET matching == MatchingSegments(userDatabase[ev.index].timing, ev.timing)
            m == Cardinality(matching)
        IN /\ FlaggedSegments = matching
           /\ m < MIN_SEGMENTS_REQUIRED => (ev.ret = 0 /\ ev.warning = 0)
           /\ (m >= MIN_SEGMENTS_REQUIRED /\ m < PATTERN_LENGTH - 1)
                  => (ev.ret = 1 /\ ev.warning = 1)
           /\ m = PATTERN_LENGTH - 1 => (ev.ret = 1 /\ ev.warning = 0)

\* Stored 300, 500, 400 against submitted 320, 480, 600 (and an equal fourth
\* segment): Success with warning, flags match, match, mismatch.
C13_Witness ==
    /\ TimingCompared
    /\ userDatabase[ev.index].timing = CaptureTiming(BaseGaps)
    /\ ev.timing = CaptureTiming(WarnGaps)
    /\ ev.ret = 1 /\ ev.warning = 1
    /\ ev.segs = <<1, 1, 0, 1>>

\* Active slots of a table, and those among them that hold a given id.
ActiveSlotsIn(db) == { i \in Slots : db[i].isActive = 1 }

HoldersIn(db, id) == { i \in ActiveSlotsIn(db) : db[i].userId = id }

\* C14: RegisterUser returns 0 and leaves the table and userCount unchanged
\* when the id is already held by an active slot or 10 slots are active; in
\* every other case it returns 1.
C14_RegisterRejects ==
    [][ev'.op = "register" =>
          IF \/ HoldersIn(userDatabase, ev'.id) # {}
             \/ Cardinality(ActiveSlotsIn(userDatabase)) = DB_SIZE
          THEN ev'.ret = 0 /\ UNCHANGED <<userDatabase, userCount>>
          ELSE ev'.ret = 1]_vars

\* A new id turned away by a full table.
C14_Witness ==
    /\ ev.op = "register" /\ ev.ret = 0
    /\ HoldersIn(userDatabase, ev.id) = {}
    /\ Cardinality(ActiveSlotsIn(userDatabase)) = DB_SIZE

\* C15: DeleteUser of an id the store holds succeeds, and RegisterUser of the
\* same id right after it succeeds too and brings userCount back to its value
\* before the pair.
C15_DeleteThenRegister ==
    [][/\ (ev'.op = "delete" /\ HoldersIn(userDatabase, ev'.id) # {})
              => ev'.ret = 1
       /\ (/\ ev.op = "delete" /\ ev.ret = 1
           /\ ev'.op = "register" /\ ev'.id = ev.id)
              => (ev'.ret = 1 /\ userCount' = ev.priorCount)]_vars

\* An id deleted from a full table, its registration enabled next.
C15_Witness ==
    /\ ev.op = "delete" /\ ev.ret = 1
    /\ ev.priorCount = DB_SIZE
    /\ HoldersIn(userDatabase, ev.id) = {}

\* C16: userCount equals the number of slots with isActive = 1 and lies
\* within 0..10.
C16_CountIsActiveSlots ==
    /\ userCount = Cardinality(ActiveSlotsIn(userDatabase))
    /\ userCount \in 0..DB_SIZE

\* A full table after a failed login attempt on one of its records.
C16_Witness ==
    /\ userCount = DB_SIZE
    /\ ev.op = "validate" /\ ev.flow = "login" /\ ev.ret = 0

\* C17: no two active slots hold the same userId.
C17_UniqueIds ==
    \A i, j \in ActiveSlotsIn(userDatabase) :
        userDatabase[i].userId = userDatabase[j].userId => i = j

\* A registration turned away because the id is held, the table not full.
C17_Witness ==
    /\ ev.op = "register" /\ ev.ret = 0
    /\ HoldersIn(userDatabase, ev.id) # {}
    /\ Cardinality(ActiveSlotsIn(userDatabase)) < DB_SIZE

\* C18: a successful RegisterUser writes the given id, pattern and timing,
\* isActive = 1, failedAttempts = 0 and isLoggedIn = 0 into the lowest-indexed
\* inactive slot and leaves every other slot unchanged.
C18_RegisterWritesLowestFree ==
    [][(ev'.op = "register" /\ ev'.ret = 1) =>
          LET free == Slots \ ActiveSlotsIn(userDatabase)
              lowest == CHOOSE i \in free : \A j \in free : i <= j
          IN /\ free # {}
             /\ userDatabase' =
                    [userDatabase EXCEPT ![lowest] =
                        [userId |-> ev'.id, pattern |-> ev'.pattern,
                         timing |-> ev'.timing, isActive |-> 1,
                         failedAttempts |-> 0, isLoggedIn |-> 0]]]_vars

\* A registration into a freed slot below an occupied one, next to a record
\* with a nonzero counter.
C18_Witness ==
    /\ ev.op = "register" /\ ev.ret = 1
    /\ \E j \in ActiveSlotsIn(userDatabase) :
           /\ j > ev.index
           /\ userDatabase[j].failedAttempts > 0

\* C19: DeleteUser of a present id zeroes every field of that slot,
\* decrements userCount by 1 and leaves the other slots unchanged; for an
\* absent id it returns 0 and changes nothing.
C19_DeleteFrame ==
    [][ev'.op = "delete" =>
          IF HoldersIn(userDatabase, ev'.id) # {}
          THEN /\ ev'.ret = 1
               /\ \E i \in HoldersIn(userDatabase, ev'.id) :
                      userDatabase' = [userDatabase EXCEPT ![i] = EmptyUser]
               /\ userCount' = userCount - 1
          ELSE ev'.ret = 0 /\ UNCHANGED <<userDatabase, userCount>>]_vars

\* A locked record deleted while another record is logged in.
C19_Witness ==
    /\ ev.op = "delete" /\ ev.ret = 1 /\ ev.flow = "call"
    /\ ev.priorFails = LOCK_LIMIT
    /\ userDatabase[ev.index] = EmptyUser
    /\ \E j \in ActiveSlotsIn(userDatabase) : userDatabase[j].isLoggedIn = 1

\* C20: UnlockUser of a present id sets failedAttempts of that record to 0
\* and changes nothing else; for an absent id it returns 0 and changes nothing.
C20_UnlockFrame ==
    [][ev'.op = "unlock" =>
          IF HoldersIn(userDatabase, ev'.id) # {}
          THEN /\ ev'.ret = 1
               /\ \E i \in HoldersIn(userDatabase, ev'.id) :
                      userDatabase' = [userDatabase EXCEPT ![i].failedAttempts = 0]
               /\ UNCHANGED userCount
          ELSE ev'.ret = 0 /\ UNCHANGED <<userDatabase, userCount>>]_vars

\* A locked record that was logged in before, unlocked.
C20_Witness ==
    /\ ev.op = "unlock" /\ ev.ret = 1 /\ ev.flow = "call"
    /\ ev.priorFails = LOCK_LIMIT
    /\ userDatabase[ev.index].failedAttempts = 0
    /\ userDatabase[ev.index].isLoggedIn = 1
    /\ userDatabase[ev.index].isActive = 1

\* A complete pattern: PATTERN_LENGTH channel numbers 1..5, none repeated.
CompletePattern(p) ==
    /\ DOMAIN p = 1..PATTERN_LENGTH
    /\ \A j \in 1..PATTERN_LENGTH : p[j] \in 1..NUM_TOUCHPADS
    /\ \A j, k \in 1..PATTERN_LENGTH : p[j] = p[k] => j = k

\* C21: every inactive slot has all fields zero, and every active slot holds a
\* complete record whose pattern has N entries in 1..5 without a repeat; this
\* holds in every state, also while a capture is under way.
C21_SlotsCompleteOrZero ==
    \A i \in Slots :
        IF userDatabase[i].isActive = 0
        THEN userDatabase[i] = EmptyUser
        ELSE /\ userDatabase[i].isActive = 1
             /\ CompletePattern(userDatabase[i].pattern)
             /\ DOMAIN userDatabase[i].timing = Segments
             /\ userDatabase[i].failedAttempts \in 0..(UINT8 - 1)
             /\ userDatabase[i].isLoggedIn \in {0, 1}

\* The record RegisterUser wrote from what CollectPattern returned.
C21_Witness ==
    /\ ev.op = "register" /\ ev.ret = 1
    /\ call.fn = "CollectPattern" /\ call.state = "idle"
    /\ userDatabase[ev.index].isActive = 1
    /\ userDatabase[ev.index].pattern = patternFrame.pattern
    /\ userDatabase[ev.index].timing = patternFrame.timing

\* C22: CollectPattern returns only after exactly PATTERN_LENGTH elements
\* were accepted, and the accepted elements are pairwise different at every
\* tick, so a channel touched again is never added again.
C22_NoRepeatExactLength ==
    call.fn = "CollectPattern" =>
        /\ call.state = "running" => patternFrame.patternLen < PATTERN_LENGTH
        /\ call.state # "running" => patternFrame.patternLen = PATTERN_LENGTH
        /\ \A j, k \in 1..patternFrame.patternLen :
               patternFrame.pattern[j] = patternFrame.pattern[k] => j = k
        /\ \A j \in 1..patternFrame.patternLen :
               patternFrame.pattern[j] \in 1..NUM_TOUCHPADS

\* The debouncer reports a channel accepted earlier, not the last one: it
\* was left and touched again, and the pattern did not grow by it.
C22_Witness ==
    /\ call.fn = "CollectPattern"
    /\ obs.reported # NO_BUTTON
    /\ obs.reported # patternFrame.lastButton
    /\ \E j \in 1..patternFrame.patternLen :
           patternFrame.pattern[j] = obs.reported + 1

\* C23: when an element after the first is accepted, the timing recorded for
\* the preceding segment is (tick of this acceptance - tick of the previous
\* acceptance) * 10 ms, whatever the gap.
C23_TimingIsGapTimesTen ==
    [][(/\ call.fn = "CollectPattern"
        /\ patternFrame'.patternLen = patternFrame.patternLen + 1
        /\ patternFrame.patternLen >= 1)
       => patternFrame'.timing[patternFrame.patternLen]
              = (patternFrame.currentTime - patternFrame.lastButtonTime) * timeout]_vars

\* The aggregates of the routine that is running.
CurrentAggr ==
    IF call.fn = "CollectPattern" THEN patternFrame.aggr
    ELSE IF call.fn = "CollectDigits" THEN digitsFrame.aggr
    ELSE buttonFrame.aggr

\* C24: in every capture routine, after any number of ticks and any raw
\* input, each of the five aggregates lies in 0..30.
C24_AggregatesClamped ==
    \A i \in Channels :
        /\ patternFrame.aggr[i] \in 0..AGGR_MAX
        /\ digitsFrame.aggr[i] \in 0..AGGR_MAX
        /\ buttonFrame.aggr[i] \in 0..AGGR_MAX

\* A channel at 30 that still reads touched, another at 0 that reads released.
C24_Witness ==
    \E c, d \in Channels :
        /\ CurrentAggr[c] = AGGR_MAX /\ obs.buttons[c]
        /\ CurrentAggr[d] = 0 /\ ~obs.buttons[d]

\* C25: in CollectPattern and WaitForButton, at the end of any run of 7 or
\* more consecutive ticks on which exactly one channel c read touched and the
\* other four did not, the channel reported is c.
C25_HeldChannelReported ==
    (/\ call.fn \in {"CollectPattern", "WaitForButton"}
     /\ obs.scanned
     /\ obs.runLen >= DebounceTicks)
        => obs.reported = obs.runChan

\* C25, amended: it is, provided every other aggregate was below
\* 2 * THRESHOLD + 2 = 14 when the run began, so that 7 ticks of decay bring
\* it to THRESHOLD or less.
C25_HeldChannelReportedOverLow ==
    (/\ call.fn \in {"CollectPattern", "WaitForButton"}
     /\ obs.scanned
     /\ obs.runLen >= DebounceTicks
     /\ obs.runOthers < 2 * THRESHOLD + 2)
        => obs.reported = obs.runChan

\* A run of 7 ticks on channel 1 that began with channel 3 at 13, the highest
\* the amended statement allows, ends with channel 1 reported.
C25_Witness ==
    /\ call.fn = "CollectPattern"
    /\ obs.scanned
    /\ obs.runChan = 1
    /\ obs.runLen = DebounceTicks
    /\ obs.runOthers = 2 * THRESHOLD + 1
    /\ obs.reported = 1

\* C26: on a tick that searches for the highest aggregate, a channel is
\* reported only if its aggregate is above 6, and when no aggregate is above 6
\* none is reported, whatever the highest one is.
C26_ReportedAboveThreshold ==
    (call.state # "idle" /\ obs.scanned) =>
        /\ obs.reported \in Channels \cup {NO_BUTTON}
        /\ obs.reported \in Channels => CurrentAggr[obs.reported] > THRESHOLD
        /\ (\A i \in Channels : CurrentAggr[i] <= THRESHOLD)
               => obs.reported = NO_BUTTON

\* Channel 1 is the highest at exactly 6 and nothing is reported.
C26_Witness ==
    /\ call.state = "running"
    /\ obs.scanned
    /\ CurrentAggr[1] = THRESHOLD
    /\ CurrentAggr[3] < THRESHOLD
    /\ obs.reported = NO_BUTTON

\* C27: the channel reported has the highest of the five aggregates, and of
\* the channels sharing that highest aggregate it is the one of lowest index.
C27_LowestIndexOfMaximum ==
    (call.state # "idle" /\ obs.scanned /\ obs.reported \in Channels) =>
        /\ \A i \in Channels : CurrentAggr[i] <= CurrentAggr[obs.reported]
        /\ \A i \in Channels :
               CurrentAggr[i] = CurrentAggr[obs.reported] => obs.reported <= i

\* Channels 1 and 3 share the highest aggregate, above 6; 1 is reported.
C27_Witness ==
    /\ call.state # "idle"
    /\ obs.scanned
    /\ CurrentAggr[1] = CurrentAggr[3]
    /\ CurrentAggr[1] > THRESHOLD
    /\ obs.reported = 1

\* C28: in CollectDigits, a digit after the first is registered only if some
\* tick since the registration before it had all five aggregates at or below
\* 2, and never while the channel registered last has read touched on every
\* tick since: a touch held without a break registers one digit.
C28_ReleaseBetweenDigits ==
    [][(/\ Running("CollectDigits")
        /\ digitsFrame.digitCount > 0
        /\ digitsFrame'.digitCount > digitsFrame.digitCount)
           => (obs.released /\ ~obs.held)]_vars

\* Channel 1 has been registered twice, released in between, and has read
\* touched since the second registration.
C28_Witness ==
    /\ call.fn = "CollectDigits"
    /\ digitsFrame.digitCount = 2
    /\ obs.chans = <<1, 1>>
    /\ obs.held

\* The decimal number whose i-th digit is chans[i] + 1.
RECURSIVE DecimalOfChannels(_)
DecimalOfChannels(chans) ==
    IF chans = <<>> THEN 0
    ELSE 10 * DecimalOfChannels(SubSeq(chans, 1, Len(chans) - 1))
             + chans[Len(chans)] + 1

\* C29: CollectDigits(n) is running while fewer than n digits are registered
\* and returns with exactly n; the value returned is the decimal number whose
\* i-th digit is the i-th registered channel plus 1, each digit in 1..5, so a
\* 2-digit id is in 11..55.
C29_DigitsValue ==
    call.fn = "CollectDigits" =>
        /\ digitsFrame.digitCount = Len(obs.chans)
        /\ call.state = "running" => digitsFrame.digitCount < call.numDigits
        /\ call.state = "returned" =>
               /\ digitsFrame.digitCount = call.numDigits
               /\ call.result = DecimalOfChannels(obs.chans)
               /\ \A i \in 1..Len(obs.chans) : obs.chans[i] + 1 \in 1..5
               /\ call.numDigits = 2 => call.result \in 11..55

\* CollectDigits(4) has returned 2442 for channels 1, 3, 3, 1.
C29_Witness ==
    /\ call.fn = "CollectDigits"
    /\ call.state = "returned"
    /\ call.numDigits = 4
    /\ obs.chans = <<1, 3, 3, 1>>
    /\ call.result = 2442

\* C30: WaitForButton returns the channel its last tick reported, and the tick
\* before it in the call reported another channel or none.
C30_ReturnsNewlyReported ==
    (call.fn = "WaitForButton" /\ call.state = "returned") =>
        /\ call.result \in Channels
        /\ call.result = obs.reported
        /\ obs.prevReported # call.result

\* Channel 3 is returned on the tick it overtakes a channel 1 that was touched
\* first and let go below the threshold.
C30_Witness ==
    /\ call.fn = "WaitForButton"
    /\ call.state = "returned"
    /\ call.result = 3
    /\ buttonFrame.aggr[1] > 0
    /\ obs.prevReported = NO_BUTTON

\* C31: WaitForButton keeps running while no aggregate exceeds 6, however
\* many ticks that lasts, and has returned at the end of any tick that reports
\* a channel; if the user does in the end hold one channel for 7 ticks in a
\* row, every call returns.
C31_ReturnsWhenReported ==
    /\ [](call.fn = "WaitForButton" =>
            /\ (\A i \in Channels : buttonFrame.aggr[i] <= THRESHOLD)
                   => call.state = "running"
            /\ (obs.scanned /\ obs.reported # NO_BUTTON)
                   => call.state = "returned")
    /\ (call.state = "running" ~> call.state = "returned")

\* Channel 3 was brought to 6 and let go without the call returning, which it
\* did when channel 1 came to be reported.
C31_Witness ==
    /\ call.fn = "WaitForButton"
    /\ call.state = "returned"
    /\ call.result = 1
    /\ buttonFrame.aggr[3] > 0
    /\ buttonFrame.aggr[3] < THRESHOLD

\* The step ends a flow on an error: REGISTER chosen on a full table, an id
\* prompt or the password prompt left other than for the flow's next prompt,
\* or a store call that returned 0.
ErrorOutcome ==
    \/ pc = "menu" /\ screenIndex = 0 /\ selectedIndex = 0
                   /\ userCount >= DB_SIZE
    \/ pc = "reg_id" /\ pc' # "reg_pattern"
    \/ pc = "login_id" /\ pc' # "login_pattern"
    \/ pc = "del_id" /\ pc' # "del_pattern"
    \/ pc = "list_pass" /\ pc' # "list_menu"
    \/ pc \in {"reg_pattern", "login_pattern", "del_pattern", "del_confirm"}
          /\ ev'.op \in {"register", "validate", "delete"} /\ ev'.ret = 0

\* A step into the next prompt of a flow is taken only past the flow's check.
Advances ==
    /\ pc' = "reg_id" => userCount < DB_SIZE
    /\ (pc = "reg_id" /\ pc' = "reg_pattern")
           => FindUser(userDatabase, userId') = -1
    /\ (pc = "login_id" /\ pc' = "login_pattern")
           => /\ FindUser(userDatabase, userId') # -1
              /\ userDatabase[FindUser(userDatabase, userId')].failedAttempts
                     < LOCK_LIMIT
    /\ (pc = "del_id" /\ pc' = "del_pattern")
           => FindUser(userDatabase, userId') # -1

\* C32: every error outcome of the main loop (table full, duplicate id,
\* unknown id, locked account, failed authentication, wrong admin password,
\* failed registration or deletion) ends the step at the main-menu wait.
C32_ErrorsReturnToMenu ==
    [][/\ ErrorOutcome => pc' = "menu"
       /\ Advances]_vars

\* A failed authentication in the delete flow, the loop back at the menu.
C32_Witness ==
    /\ pc = "menu"
    /\ ev.op = "validate"
    /\ ev.flow = "delete"
    /\ ev.ret = 0
    /\ userCount > 0

\* C33: one iteration of CollectPattern appends at most one element, and it
\* appends one exactly when the channel reported differs from the channel
\* accepted last and is not in the accepted prefix; on any other iteration
\* pattern, timing and the last-accepted marker are unchanged.
C33_AcceptOnlyNewChannel ==
    [][(Running("CollectPattern") /\ call'.steps = call.steps + 1) =>
         LET len == patternFrame.patternLen
             reported == obs'.reported
             fresh == /\ reported # NO_BUTTON
                      /\ reported # patternFrame.lastButton
                      /\ \A j \in 1..len :
                             patternFrame.pattern[j] # reported + 1
         IN IF fresh
            THEN /\ patternFrame'.patternLen = len + 1
                 /\ patternFrame'.pattern =
                        [patternFrame.pattern EXCEPT ![len + 1] = reported + 1]
                 /\ patternFrame'.lastButton = reported
                 /\ \A j \in Segments :
                        j # len => patternFrame'.timing[j] = patternFrame.timing[j]
            ELSE /\ patternFrame'.patternLen = len
                 /\ patternFrame'.pattern = patternFrame.pattern
                 /\ patternFrame'.timing = patternFrame.timing
                 /\ patternFrame'.lastButton = patternFrame.lastButton
                 /\ patternFrame'.lastButtonTime = patternFrame.lastButtonTime]_vars

\* Channel 1 is reported again after channel 3 was accepted: it is in the
\* prefix, not the last accepted, and nothing is appended.
C33_Witness ==
    /\ call.fn = "CollectPattern"
    /\ patternFrame.patternLen = 2
    /\ patternFrame.pattern[1] = 2
    /\ patternFrame.pattern[2] = 4
    /\ patternFrame.lastButton = 3
    /\ obs.reported = 1

\* No call is in progress.
Quiescent == \A p \in Procs : sessions.proc[p].pc = "idle"

\* One active slot per id at most, and userCount is the number of active slots.
StoreConsistent ==
    /\ \A id \in StoreIds : Cardinality(HoldersIn(userDatabase, id)) <= 1
    /\ userCount = Cardinality(ActiveSlotsIn(userDatabase))

\* C34: with an exclusive lock held across each whole RegisterUser or
\* DeleteUser call, between calls no id has two active slots and userCount
\* is the number of active slots (without the lock such a state is reached
\* by interleaved calls).
C34_LockedCallsKeepStoreConsistent ==
    (sessions.locking /\ Quiescent) => StoreConsistent

\* Without the lock, two interleaved RegisterUser calls for one id have both
\* returned and left two active slots for it.
C34_Witness ==
    /\ ~sessions.locking
    /\ Quiescent
    /\ \E id \in StoreIds : Cardinality(HoldersIn(userDatabase, id)) = 2

\* The steps of the DELETE flow, from the id prompt to the confirmation.
DeleteFlow == {"del_id", "del_pattern", "del_confirm"}

\* C35: the main loop calls DeleteUser only at the confirmation of the DELETE
\* flow, for the id whose ValidateLogin returned 1 in the step before, and
\* only when the confirmation button read was CENTER; a step of the flow
\* that does not call DeleteUser (a failed authentication, another
\* confirmation button) leaves the table and userCount unchanged.
C35_DeleteOnlyConfirmedAndAuthenticated ==
    [][/\ ev'.op = "delete" =>
            /\ pc = "del_confirm"
            /\ ev.op = "validate"
            /\ ev.flow = "delete"
            /\ ev.ret = 1
            /\ ev.id = ev'.id
            /\ ev'.button = 4
       /\ (pc \in DeleteFlow /\ ev'.op # "delete") =>
              UNCHANGED <<userDatabase, userCount>>]_vars

\* DeleteUser has removed an authenticated record after CENTER.
C35_Witness ==
    /\ ev.op = "delete"
    /\ ev.flow = "delete"
    /\ ev.button = 4
    /\ ev.ret = 1
    /\ userCount = ev.priorCount - 1

\* The steps of one LIST menu visit behind the password prompt.
ListVisit == {"list_menu", "list_wait", "locked_nav", "unlock_confirm"}

\* The ids of a locked list.
ListedIds(list) == { list[k] : k \in 1..Len(list) }

\* C36: UnlockUser is called only at the unlock confirmation of the LIST
\* menu, after CENTER, for an id of the locked list; the LIST menu is entered
\* only from the password prompt with the admin password; the locked list is
\* built from active records with failedAttempts >= 3 and only shrinks during
\* the visit, so the record unlocked held failedAttempts >= 3; and a wrong
\* password returns to the main menu with the store unchanged.
C36_UnlockOnlyBehindAdminAndCenter ==
    [][/\ ev'.op = "unlock" =>
            /\ pc = "unlock_confirm"
            /\ ev'.button = 4
            /\ ev'.id \in ListedIds(lockedUserIds)
            /\ ev'.index # -1
            /\ ev'.priorFails >= LOCK_LIMIT
       /\ (pc \notin ListVisit /\ pc' \in ListVisit) =>
            /\ pc = "list_pass"
            /\ ev'.op = "admin"
            /\ ev'.id = ADMIN_PASSWORD
       /\ (pc = "list_menu" /\ pc' = "locked_nav") =>
            \A id \in ListedIds(lockedUserIds') :
                \E i \in Slots : /\ userDatabase[i].isActive = 1
                                 /\ userDatabase[i].userId = id
                                 /\ userDatabase[i].failedAttempts >= LOCK_LIMIT
       /\ pc \in {"locked_nav", "unlock_confirm"} =>
            /\ ListedIds(lockedUserIds') \subseteq ListedIds(lockedUserIds)
            /\ ev'.op # "unlock" => UNCHANGED <<userDatabase, userCount>>
       /\ (ev'.op = "admin" /\ ev'.id # ADMIN_PASSWORD) =>
            /\ pc' = "menu"
            /\ UNCHANGED <<userDatabase, userCount>>]_vars

\* UnlockUser has cleared a locked record after the admin password and CENTER.
C36_Witness ==
    /\ ev.op = "unlock"
    /\ ev.flow = "list"
    /\ ev.button = 4
    /\ ev.ret = 1
    /\ ev.priorFails >= LOCK_LIMIT
    /\ userDatabase[ev.index].failedAttempts = 0

\* C37: a ValidateLogin call leaves the table and userCount as they were,
\* whatever the id, pattern and timing and whatever it returns.
C37_ValidateLoginKeepsStore ==
    [][(ev'.op = "validate" /\ ev'.flow = "call") =>
           /\ userDatabase' = userDatabase
           /\ userCount' = userCount]_vars

\* ValidateLogin has rejected an entry for a registered id.
C37_Witness ==
    /\ ev.op = "validate"
    /\ ev.flow = "call"
    /\ ev.index # -1
    /\ ev.ret = 0
    /\ userDatabase[ev.index].isActive = 1
    /\ userDatabase[ev.index].failedAttempts = ev.priorFails

\* C38: when CollectPattern has returned, every one of the PATTERN_LENGTH - 1
\* timing values it filled is at least 10 ms. (Refuted: a gap of WrapGap ticks
\* between two acceptances is stored as 0.)
C38_TimingsNonzero ==
    (call.fn = "CollectPattern" /\ call.state = "returned") =>
        \A j \in Segments : patternFrame.timing[j] >= timeout

\* C39: from any aggregates within 0..AGGR_MAX, after 16 iterations on which
\* channel c alone reads touched c is the channel reported (its aggregate is
\* above THRESHOLD and above every other), and after 24 iterations on which
\* no channel reads touched no channel is reported.
C39_SettlesWithinBound ==
    /\ (obs.runChan # NO_BUTTON /\ obs.runLen = SettleTicks) =>
           /\ obs.reported = obs.runChan
           /\ patternFrame.aggr[obs.runChan] > THRESHOLD
           /\ \A j \in Channels \ {obs.runChan} :
                  patternFrame.aggr[j] < patternFrame.aggr[obs.runChan]
    /\ (obs.buttons = NoTouch /\ obs.runLen = ReleaseTicks) =>
           /\ obs.reported = NO_BUTTON
           /\ MaxButton(patternFrame.aggr) = NO_BUTTON

\* Channel 1 is reported after a run that began with channel 0 at the ceiling
\* and channel 1 at rest.
C39_Witness ==
    /\ call = NoCall
    /\ obs.runChan = 1
    /\ obs.runLen = SettleTicks
    /\ obs.runOthers = AGGR_MAX
    /\ patternFrame.aggr[0] = AGGR_MAX - SettleTicks
    /\ patternFrame.aggr[1] = SettleTicks
    /\ obs.reported = 1

\* C40: a WaitForButton call begins with every aggregate at 0 and no channel
\* detected; an iteration of it returns exactly when it leaves some aggregate
\* above THRESHOLD, which is the first such iteration of the call and never
\* one before the 7th; and when one channel alone has read touched on every
\* iteration since the first call began, every call that has returned has
\* returned that channel.
C40_EachCallStartsAfresh ==
    /\ (Running("WaitForButton") /\ call.steps = 0) =>
           buttonFrame = InitButtonFrame
    /\ Running("WaitForButton") =>
           \A i \in Channels : buttonFrame.aggr[i] <= THRESHOLD
    /\ (call.fn = "WaitForButton" /\ call.state = "returned") =>
           /\ buttonFrame.aggr[call.result] > THRESHOLD
           /\ call.steps >= DebounceTicks
           /\ obs.held =>
                  /\ call.result = obs.runChan
                  /\ call.steps = DebounceTicks
                  /\ \A k \in 1..Len(obs.chans) : obs.chans[k] = obs.runChan

\* Channel 3, held alone since the first call began, has been returned by
\* two successive calls.
C40_Witness ==
    /\ call.fn = "WaitForButton"
    /\ call.state = "returned"
    /\ obs.held
    /\ obs.chans = <<3, 3>>
    /\ call.steps = DebounceTicks

====
